---------------------------- MODULE Spec2Model ----------------------------
(***************************************************************************)
(* Model of the SIXEL decoder of libterminal: SixelColorPalette,           *)
(* SixelImageBuilder and SixelParser (src/src/terminal/SixelParser.cpp),   *)
(* of the image pool and the cell fragments of a rasterized image          *)
(* (src/src/terminal/Image.cpp) and of the renderer's queue of image       *)
(* discards (src/src/terminal_renderer/Renderer.cpp).                      *)
(*                                                                         *)
(* Colours are tuples <<r, g, b>> (RGBColor) and <<r, g, b, a>>            *)
(* (RGBAColor).  C++ containers are 0-based, TLA+ sequences 1-based: the   *)
(* element with C++ index i is element i + 1 of the sequence.             *)
(***************************************************************************)
EXTENDS Integers, Sequences, FiniteSets, TLC

VARIABLES
    state_,      \* SixelParser::state_
    params_,     \* SixelParser::params_
    finalizer_,  \* whether a finalizer callback was supplied at construction
    sink,        \* the Events sink of the parser: "recorder" or "builder"
    emitted,     \* the calls made on the sink (and the finalizer) by the last operation
    input,       \* the code points passed so far while a builder is attached
    lastCall,    \* the last operation invoked from outside, with its arguments
    ncalls,      \* the number of calls made directly on the builder
    background,  \* the _backgroundColor the builder was constructed with
    builder,     \* the SixelImageBuilder (its palette included)
    palette,     \* a SixelColorPalette used on its own
    pool,        \* the ImagePool, the handles to its entries and the observer's log
    threads,     \* where each thread stands inside the operation it is running
    renderer,    \* the Renderer's discard queue, its lock and what was rendered
    tile         \* a RasterizedImage, the cell asked for and the fragment returned

vars == <<state_, params_, finalizer_, sink, emitted, input, lastCall, ncalls,
          background, builder, palette, pool, threads, renderer, tile>>

\* the state outside the SIXEL decoder
imageVars == <<palette, pool, threads, renderer, tile>>

\* no palette of its own, no pool, no thread, no renderer and no fragment in use
NoImages ==
    /\ palette = [palette_ |-> <<>>, maxSize_ |-> 0]
    /\ pool = <<>>
    /\ threads = <<>>
    /\ renderer = <<>>
    /\ tile = <<>>

-----------------------------------------------------------------------------
(* Bounds of the model                                                     *)

\* code points passed freely (any word over Alphabet) while a builder is attached
MaxLen == 2
\* largest parameter value accumulated from digits under the recording sink
MaxParam == 12
\* longest parameter list built under the recording sink
MaxParams == 5
\* number of direct calls on the builder in SpecBuilder
MaxCalls == 3
\* largest colour component fed to convertValue in SpecScale
MaxScaleIn == 263180

-----------------------------------------------------------------------------
(* Small helpers                                                           *)

Min(a, b) == IF a < b THEN a ELSE b

Max(a, b) == IF a > b THEN a ELSE b

\* the powers of two 2^0 .. 2^30
PowersOfTwo ==
    <<1, 2, 4, 8, 16, 32, 64, 128, 256, 512, 1024, 2048, 4096, 8192, 16384, 32768,
      65536, 131072, 262144, 524288, 1048576, 2097152, 4194304, 8388608, 16777216,
      33554432, 67108864, 134217728, 268435456, 536870912, 1073741824>>

\* 1 << n
Pow2(n) == PowersOfTwo[n + 1]

\* std::vector::resize: keeps the first elements, value-initialises the new ones
Resize(seq, n, fillValue) ==
    [k \in 1..n |-> IF k <= Len(seq) THEN seq[k] ELSE fillValue]

\* std::clamp(v, lo, hi)
Clamp(v, lo, hi) == IF v < lo THEN lo ELSE IF hi < v THEN hi ELSE v

-----------------------------------------------------------------------------
(* Input classification                                                    *)

isDigit(v) == v >= 48 /\ v <= 57

toDigit(v) == v - 48

\* isSixel that does not take '?' for a sixel byte
isSixel_AboveQuestionMark(v) == v >= 64 /\ v <= 126

isSixel(v) == v >= 63 /\ v <= 126

toSixel(v) == v - 63

-----------------------------------------------------------------------------
(* SixelColorPalette                                                       *)

defaultColors ==
    << <<0, 0, 0>>,       <<51, 51, 204>>,   <<204, 33, 33>>,   <<51, 204, 51>>,
       <<204, 51, 204>>,  <<51, 204, 204>>,  <<204, 204, 51>>,  <<135, 135, 135>>,
       <<66, 66, 66>>,    <<84, 84, 153>>,   <<153, 66, 66>>,   <<84, 153, 84>>,
       <<153, 84, 153>>,  <<84, 153, 153>>,  <<153, 153, 84>>,  <<204, 204, 204>> >>

\* a value-initialised RGBColor
BlackRGB == <<0, 0, 0>>

PaletteReset(p) ==
    [p EXCEPT !.palette_ =
        [k \in 1..Len(p.palette_) |->
            IF k <= Min(Len(p.palette_), Len(defaultColors))
            THEN defaultColors[k] ELSE p.palette_[k]]]

PaletteNew(size, maxSize) ==
    PaletteReset([palette_ |-> IF size > 0 THEN Resize(<<>>, size, BlackRGB) ELSE <<>>,
                  maxSize_ |-> maxSize])

\* setSize that seeds the slots of the resized palette with the VT340 defaults
PaletteSetSize_Defaults(p, newSize) ==
    PaletteReset([p EXCEPT !.palette_ =
                     Resize(p.palette_, Max(0, Min(newSize, p.maxSize_)), BlackRGB)])

PaletteSetSize(p, newSize) ==
    [p EXCEPT !.palette_ = Resize(p.palette_, Max(0, Min(newSize, p.maxSize_)), BlackRGB)]

PaletteSetMaxSize(p, value) == [p EXCEPT !.maxSize_ = value]
\* setColor that never grows the palette
PaletteSetColor_NoGrow(p, index, color) ==
    IF index < p.maxSize_ /\ index >= 0 /\ index < Len(p.palette_)
    THEN [p EXCEPT !.palette_[index + 1] = color]
    ELSE p

PaletteSetColor(p, index, color) ==
    IF index < p.maxSize_
    THEN LET q == IF index >= Len(p.palette_) THEN PaletteSetSize(p, index + 1) ELSE p
         IN  IF index >= 0 /\ index < Len(q.palette_)
             THEN [q EXCEPT !.palette_[index + 1] = color]
             ELSE q
    ELSE p

\* palette_[_index % palette_.size()]; the palette is not empty when this is evaluated
PaletteAt(p, index) == p.palette_[(index % Len(p.palette_)) + 1]

-----------------------------------------------------------------------------
(* SixelImageBuilder                                                       *)

\* size_.width * size_.height * 4
BufferBytes(size) == size.width * size.height * 4

clear(b, fillColor) ==
    [b EXCEPT !.sixelCursor_ = [row |-> 0, column |-> 0],
              !.buffer_ = [k \in 1..Len(b.buffer_) |->
                              IF k <= 4 * (b.size_.width * b.size_.height)
                              THEN fillColor[((k - 1) % 4) + 1]
                              ELSE b.buffer_[k]]]

BuilderNew(maxSize, aspectVertical, aspectHorizontal, backgroundColor, colorPalette) ==
    clear([maxSize_      |-> maxSize,
           colors_       |-> colorPalette,
           size_         |-> maxSize,
           buffer_       |-> Resize(<<>>, BufferBytes(maxSize), 0),
           sixelCursor_  |-> [row |-> 0, column |-> 0],
           currentColor_ |-> 0,
           aspectRatio_  |-> [nominator |-> aspectVertical,
                              denominator |-> aspectHorizontal]],
          backgroundColor)

\* the RGBA pixel stored at (row, column) of a raster of the builder's width
PixelAt(b, row, column) ==
    LET base == row * b.size_.width * 4 + column * 4
    IN  <<b.buffer_[base + 1], b.buffer_[base + 2], b.buffer_[base + 3], b.buffer_[base + 4]>>

at(b, row, column) == PixelAt(b, row % b.size_.height, column % b.size_.width)
\* write without the test of the coordinate: the four bytes land wherever base points,
\* behind the end of the buffer included
write_Unguarded(b, row, column, value) ==
    LET base == row * b.size_.width * 4 + column * 4
    IN  [b EXCEPT !.buffer_ =
            [k \in 1..Max(Len(b.buffer_), base + 4) |->
                IF k = base + 1 THEN value[1]
                ELSE IF k = base + 2 THEN value[2]
                ELSE IF k = base + 3 THEN value[3]
                ELSE IF k = base + 4 THEN 255
                ELSE IF k <= Len(b.buffer_) THEN b.buffer_[k]
                ELSE 0]]

\* write that stores the colour and leaves the alpha byte as it was
write_KeepAlpha(b, row, column, value) ==
    IF row >= 0 /\ row < b.size_.height /\ column >= 0 /\ column < b.size_.width
    THEN LET base == row * b.size_.width * 4 + column * 4
         IN  [b EXCEPT !.buffer_ =
                 [k \in 1..Len(b.buffer_) |->
                     IF k = base + 1 THEN value[1]
                     ELSE IF k = base + 2 THEN value[2]
                     ELSE IF k = base + 3 THEN value[3]
                     ELSE b.buffer_[k]]]
    ELSE b

write(b, row, column, value) ==
    IF row >= 0 /\ row < b.size_.height /\ column >= 0 /\ column < b.size_.width
    THEN LET base == row * b.size_.width * 4 + column * 4
         IN  [b EXCEPT !.buffer_ =
                 [k \in 1..Len(b.buffer_) |->
                     IF k = base + 1 THEN value[1]
                     ELSE IF k = base + 2 THEN value[2]
                     ELSE IF k = base + 3 THEN value[3]
                     ELSE IF k = base + 4 THEN 255
                     ELSE b.buffer_[k]]]
    ELSE b

currentColor(b) == PaletteAt(b.colors_, b.currentColor_)

setColor(b, index, color) ==
    [b EXCEPT !.colors_ = PaletteSetColor(b.colors_, index, color)]

useColor(b, index) ==
    [b EXCEPT !.currentColor_ = index % Len(b.colors_.palette_)]

rewind(b) == [b EXCEPT !.sixelCursor_.column = 0]
\* newline that advances while the new row is not beyond the last one (row + 6 <= size.h)
newline_Inclusive(b) ==
    LET c == [b EXCEPT !.sixelCursor_.column = 0]
    IN  IF c.sixelCursor_.row + 6 <= c.size_.height
        THEN [c EXCEPT !.sixelCursor_.row = c.sixelCursor_.row + 6]
        ELSE c

\* newline that advances only while rows of the image lie below the new band
\* (row + 12 < size.h)
newline_FullBand(b) ==
    LET c == [b EXCEPT !.sixelCursor_.column = 0]
    IN  IF c.sixelCursor_.row + 12 < c.size_.height
        THEN [c EXCEPT !.sixelCursor_.row = c.sixelCursor_.row + 6]
        ELSE c

\* newline that returns to column 0 and never advances the row
newline_NoAdvance(b) == [b EXCEPT !.sixelCursor_.column = 0]

newline(b) ==
    LET c == [b EXCEPT !.sixelCursor_.column = 0]
    IN  IF c.sixelCursor_.row + 6 < c.size_.height
        THEN [c EXCEPT !.sixelCursor_.row = c.sixelCursor_.row + 6]
        ELSE c
\* setRaster that takes the requested size without clamping it to maxSize_
setRaster_NoClamp(b, pan, pad, imageSize) ==
    [b EXCEPT !.aspectRatio_ = [nominator |-> pan, denominator |-> pad],
              !.size_ = imageSize,
              !.buffer_ = Resize(b.buffer_, BufferBytes(imageSize), 0)]

setRaster(b, pan, pad, imageSize) ==
    LET newSize == [width  |-> Clamp(imageSize.width, 0, b.maxSize_.width),
                    height |-> Clamp(imageSize.height, 0, b.maxSize_.height)]
    IN  [b EXCEPT !.aspectRatio_ = [nominator |-> pan, denominator |-> pad],
                  !.size_ = newSize,
                  !.buffer_ = Resize(b.buffer_, BufferBytes(newSize), 0)]

\* the loop of render from pin i on
RECURSIVE renderPins(_, _, _)
renderPins(b, sixel, i) ==
    IF i >= 6 THEN b
    ELSE LET y == b.sixelCursor_.row + i
             x == b.sixelCursor_.column
             pinned == ((sixel \div Pow2(i)) % 2) # 0
         IN  renderPins(IF pinned THEN write(b, y, x, currentColor(b)) ELSE b, sixel, i + 1)
\* render that paints the column and leaves the cursor where it was
render_NoAdvance(b, sixel) ==
    IF b.sixelCursor_.column < b.size_.width
    THEN renderPins(b, sixel, 0)
    ELSE b
\* render that advances the cursor whether or not the column is inside the raster
render_NoGuard(b, sixel) ==
    LET painted == renderPins(b, sixel, 0)
    IN  [painted EXCEPT !.sixelCursor_.column = painted.sixelCursor_.column + 1]

render(b, sixel) ==
    IF b.sixelCursor_.column < b.size_.width
    THEN LET painted == renderPins(b, sixel, 0)
         IN  [painted EXCEPT !.sixelCursor_.column = painted.sixelCursor_.column + 1]
    ELSE b

-----------------------------------------------------------------------------
(* Single-precision arithmetic of convertValue                              *)
(* A float has a 24-bit significand; every operation rounds to nearest,     *)
(* ties to even.  The values met here are non-negative.                     *)

\* the least e >= 0 with n / 2^e < 2^24
RECURSIVE F32Exponent(_, _)
F32Exponent(n, e) == IF n \div Pow2(e) < 16777216 THEN e ELSE F32Exponent(n, e + 1)

\* num / den rounded to an integer, ties to even
RoundHalfEven(num, den) ==
    LET q == num \div den
        r == num % den
    IN  IF 2 * r > den \/ (2 * r = den /\ q % 2 = 1) THEN q + 1 ELSE q

\* static_cast<float>(n) for an unsigned n
F32OfNat(n) ==
    LET e == F32Exponent(n, 0)
    IN  RoundHalfEven(n, Pow2(e)) * Pow2(e)

\* a * b in float, for integer-valued floats a and b
F32Mul(a, b) == F32OfNat(a * b)

\* the number of fraction bits of the float nearest to x / d (0 < x / d < 2^24):
\* the least k' >= k with floor(x * 2^k' / d) >= 2^23
RECURSIVE F32FractionBits(_, _, _)
F32FractionBits(x, d, k) ==
    IF (x * Pow2(k)) \div d < 8388608 THEN F32FractionBits(x, d, k + 1) ELSE k

\* static_cast<unsigned>(x / d) with the quotient rounded to float first, for
\* integer-valued floats x and d with x < d * 2^24 (a quotient below 2^24)
F32DivTrunc(x, d) ==
    IF x = 0 THEN 0
    ELSE LET k == F32FractionBits(x, d, 0)
         IN  RoundHalfEven(x * Pow2(k), d) \div Pow2(k)
\* convertValue that saturates at 255 where the code reduces modulo 256
convertValue_Saturating(value) ==
    Min(F32DivTrunc(F32Mul(F32OfNat(value), 255), 100), 255)

\* static_cast<uint8_t>(static_cast<unsigned>((float(_value) * 255.0f) / 100.0f) % 256)
convertValue(value) == F32DivTrunc(F32Mul(F32OfNat(value), 255), 100) % 256

-----------------------------------------------------------------------------
(* SixelParser                                                             *)
(* The operators below work on a record p = [state_, params_, events]:     *)
(* events collects, in order, the calls made on events_ (and the call of   *)
(* the finalizer).                                                         *)

Emit(p, event) == [p EXCEPT !.events = Append(p.events, event)]

paramShiftAndAddDigit(p, value) ==
    LET n == Len(p.params_)
    IN  [p EXCEPT !.params_[n] = p.params_[n] * 10 + value]

\* enterState that pushes the 0 without clearing the list first
enterState_NoClear(p) ==
    IF p.state_ \in {"ColorIntroducer", "RepeatIntroducer", "RasterSettings"}
    THEN [p EXCEPT !.params_ = Append(p.params_, 0)]
    ELSE p

enterState(p) ==
    IF p.state_ \in {"ColorIntroducer", "RepeatIntroducer", "RasterSettings"}
    THEN [p EXCEPT !.params_ = <<0>>]
    ELSE p
\* leaveState that takes every five-parameter colour definition for RGB
leaveState_HslAsRgb(p) ==
    CASE p.state_ \in {"Ground", "ColorIntroducer", "RepeatIntroducer"} -> p
      [] p.state_ = "RasterSettings" ->
            IF Len(p.params_) = 4
            THEN [Emit(p, <<"setRaster", p.params_[1], p.params_[2],
                            p.params_[3], p.params_[4]>>)
                    EXCEPT !.state_ = "Ground"]
            ELSE p
      [] p.state_ = "ColorParam" ->
            IF Len(p.params_) = 1
            THEN Emit(p, <<"useColor", p.params_[1]>>)
            ELSE IF Len(p.params_) = 5
            THEN Emit(p, <<"setColor", p.params_[1],
                           <<convertValue(p.params_[3]),
                             convertValue(p.params_[4]),
                             convertValue(p.params_[5])>> >>)
            ELSE p

leaveState(p) ==
    CASE p.state_ \in {"Ground", "ColorIntroducer", "RepeatIntroducer"} -> p
      [] p.state_ = "RasterSettings" ->
            IF Len(p.params_) = 4
            THEN [Emit(p, <<"setRaster", p.params_[1], p.params_[2],
                            p.params_[3], p.params_[4]>>)
                    EXCEPT !.state_ = "Ground"]
            ELSE p
      [] p.state_ = "ColorParam" ->
            IF Len(p.params_) = 1
            THEN Emit(p, <<"useColor", p.params_[1]>>)
            ELSE IF Len(p.params_) = 5
            THEN IF p.params_[2] = 2
                 THEN Emit(p, <<"setColor", p.params_[1],
                                <<convertValue(p.params_[3]),
                                  convertValue(p.params_[4]),
                                  convertValue(p.params_[5])>> >>)
                 ELSE p
            ELSE p

transitionTo(p, newState) ==
    enterState([leaveState(p) EXCEPT !.state_ = newState])

\* fallback that emits rewind and newline before it leaves the current state
fallback_EventFirst(p, value) ==
    IF value = 35 THEN transitionTo(p, "ColorIntroducer")
    ELSE IF value = 33 THEN transitionTo(p, "RepeatIntroducer")
    ELSE IF value = 34 THEN transitionTo(p, "RasterSettings")
    ELSE IF value = 36 THEN transitionTo(Emit(p, <<"rewind">>), "Ground")
    ELSE IF value = 45 THEN transitionTo(Emit(p, <<"newline">>), "Ground")
    ELSE LET q == IF p.state_ # "Ground" THEN transitionTo(p, "Ground") ELSE p
         IN  IF isSixel(value) THEN Emit(q, <<"render", toSixel(value)>>) ELSE q

\* fallback that leaves the state only for the code points it acts on
fallback_KeepState(p, value) ==
    IF value = 35 THEN transitionTo(p, "ColorIntroducer")
    ELSE IF value = 33 THEN transitionTo(p, "RepeatIntroducer")
    ELSE IF value = 34 THEN transitionTo(p, "RasterSettings")
    ELSE IF value = 36 THEN Emit(transitionTo(p, "Ground"), <<"rewind">>)
    ELSE IF value = 45 THEN Emit(transitionTo(p, "Ground"), <<"newline">>)
    ELSE IF isSixel(value)
    THEN Emit(IF p.state_ # "Ground" THEN transitionTo(p, "Ground") ELSE p,
              <<"render", toSixel(value)>>)
    ELSE p

fallback(p, value) ==
    IF value = 35 THEN transitionTo(p, "ColorIntroducer")
    ELSE IF value = 33 THEN transitionTo(p, "RepeatIntroducer")
    ELSE IF value = 34 THEN transitionTo(p, "RasterSettings")
    ELSE IF value = 36 THEN Emit(transitionTo(p, "Ground"), <<"rewind">>)
    ELSE IF value = 45 THEN Emit(transitionTo(p, "Ground"), <<"newline">>)
    ELSE LET q == IF p.state_ # "Ground" THEN transitionTo(p, "Ground") ELSE p
         IN  IF isSixel(value) THEN Emit(q, <<"render", toSixel(value)>>) ELSE q
\* the repeat loop running once more than params_[0] says
RECURSIVE repeatRender_OffByOne(_, _, _)
repeatRender_OffByOne(p, sixel, i) ==
    IF i <= p.params_[1]
    THEN repeatRender_OffByOne(Emit(p, <<"render", sixel>>), sixel, i + 1)
    ELSE p

\* the loop of the RepeatIntroducer case: render(sixel) for i = done .. params_[0] - 1
RECURSIVE repeatRender(_, _, _)
repeatRender(p, sixel, i) ==
    IF i < p.params_[1]
    THEN repeatRender(Emit(p, <<"render", sixel>>), sixel, i + 1)
    ELSE p

parse(p, value) ==
    CASE p.state_ = "Ground" -> fallback(p, value)
      [] p.state_ = "RepeatIntroducer" ->
            IF isDigit(value) THEN paramShiftAndAddDigit(p, toDigit(value))
            ELSE IF isSixel(value)
            THEN transitionTo(repeatRender(p, toSixel(value), 0), "Ground")
            ELSE fallback(p, value)
      [] p.state_ = "ColorIntroducer" ->
            IF isDigit(value)
            THEN transitionTo(paramShiftAndAddDigit(p, toDigit(value)), "ColorParam")
            ELSE fallback(p, value)
      [] p.state_ = "ColorParam" ->
            IF isDigit(value) THEN paramShiftAndAddDigit(p, toDigit(value))
            ELSE IF value = 59 THEN [p EXCEPT !.params_ = Append(p.params_, 0)]
            ELSE fallback(p, value)
      [] p.state_ = "RasterSettings" ->
            IF isDigit(value) THEN paramShiftAndAddDigit(p, toDigit(value))
            ELSE IF value = 59 THEN [p EXCEPT !.params_ = Append(p.params_, 0)]
            ELSE fallback(p, value)
\* done that calls the finalizer before it leaves the current state
done_FinalizerFirst(p, hasFinalizer) ==
    transitionTo(IF hasFinalizer THEN Emit(p, <<"finalizer">>) ELSE p, "Ground")

done(p, hasFinalizer) ==
    LET q == transitionTo(p, "Ground")
    IN  IF hasFinalizer THEN Emit(q, <<"finalizer">>) ELSE q

\* one call on the Events interface, as SixelImageBuilder implements it
applyEvent(b, event) ==
    CASE event[1] = "render"    -> render(b, event[2])
      [] event[1] = "setRaster" ->
            setRaster(b, event[2], event[3], [width |-> event[4], height |-> event[5]])
      [] event[1] = "useColor"  -> useColor(b, event[2])
      [] event[1] = "setColor"  -> setColor(b, event[2], event[3])
      [] event[1] = "rewind"    -> rewind(b)
      [] event[1] = "newline"   -> newline(b)
      [] OTHER                  -> b

\* the calls of events, in order, on the builder
RECURSIVE applyEvents(_, _)
applyEvents(b, events) ==
    IF events = <<>> THEN b
    ELSE applyEvents(applyEvent(b, Head(events)), Tail(events))

-----------------------------------------------------------------------------
(* Configurations and inputs                                               *)

Size(w, h) == [width |-> w, height |-> h]

OpaqueBlack == <<0, 0, 0, 255>>

Red == <<255, 0, 0>>

\* maximum sizes the builders are constructed with
Rasters == {Size(2, 6), Size(4, 3), Size(4, 12), Size(5, 13)}

\* background colours the builders are constructed with
Backgrounds == {OpaqueBlack, <<9, 9, 9, 0>>}

\* palettes handed to the builders: fresh ones, and one whose entry 1 was set to red
Palettes == {PaletteNew(2, 4), PaletteNew(3, 8),
             PaletteSetColor(PaletteNew(3, 8), 1, Red)}

\* "#1?~"
ScriptSingle == <<35, 49, 63, 126>>
\* "#2!4N"
ScriptRepeat == <<35, 50, 33, 52, 78>>
\* "#1~-~"
ScriptNewline == <<35, 49, 126, 45, 126>>
\* "#5;2;100;0;0"
ScriptColorDef == <<35, 53, 59, 50, 59, 49, 48, 48, 59, 48, 59, 48>>
\* "#1;1;100;0;0" (a colour definition in the HSL colour space)
ScriptColorHSL == <<35, 49, 59, 49, 59, 49, 48, 48, 59, 48, 59, 48>>
\* "\"1;1;2;7~"
ScriptRaster == <<34, 49, 59, 49, 59, 50, 59, 55, 126>>

\* "#1~!3?N"
ScriptRepeatEmpty == <<35, 49, 126, 33, 51, 63, 78>>

Scripts == {ScriptSingle, ScriptRepeat, ScriptNewline, ScriptColorDef,
            ScriptColorHSL, ScriptRaster, ScriptRepeatEmpty}

\* '#', '!', '"', '$', '-', ';', '1', '2', '?', 'N', '~' and ' '
Alphabet == {35, 33, 34, 36, 45, 59, 49, 50, 63, 78, 126, 32}

CodePoints == Alphabet \cup UNION {{sc[k] : k \in 1..Len(sc)} : sc \in Scripts}

IsPrefix(a, b) == Len(a) <= Len(b) /\ \A k \in 1..Len(a) : a[k] = b[k]

\* the builder that exists beside a parser writing to the recording sink
IdleBuilder == BuilderNew(Size(0, 0), 1, 1, OpaqueBlack, PaletteNew(1, 1))

Parser == [state_ |-> state_, params_ |-> params_, events |-> <<>>]

-----------------------------------------------------------------------------
(* The parser in front of an Events sink                                   *)

Init ==
    /\ state_ = "Ground"
    /\ params_ = <<>>
    /\ finalizer_ \in BOOLEAN
    /\ sink \in {"recorder", "builder"}
    /\ emitted = <<>>
    /\ input = <<>>
    /\ lastCall = <<"construct">>
    /\ ncalls = 0
    /\ background \in (IF sink = "builder" THEN Backgrounds ELSE {OpaqueBlack})
    /\ IF sink = "builder"
       THEN \E maxSize \in Rasters, pal \in Palettes :
                builder = BuilderNew(maxSize, 1, 1, background, pal)
       ELSE builder = IdleBuilder
    /\ NoImages

\* what bounds the input: with a builder attached, any word of MaxLen code points
\* or a prefix of a script; with the recording sink, the size of the parameters
InputAllowed(value, q) ==
    IF sink = "builder"
    THEN /\ lastCall # <<"finalize">>
         /\ \/ Len(input) < MaxLen /\ value \in Alphabet
            \/ \E sc \in Scripts : IsPrefix(Append(input, value), sc)
    ELSE /\ value \in Alphabet
         /\ Len(q.params_) <= MaxParams
         /\ \A k \in 1..Len(q.params_) : q.params_[k] <= MaxParam

\* SixelParser::pass
Pass(value) ==
    LET q == parse(Parser, value)
    IN  /\ InputAllowed(value, q)
        /\ state_' = q.state_
        /\ params_' = q.params_
        /\ emitted' = q.events
        /\ lastCall' = <<"pass", value>>
        /\ input' = IF sink = "builder" THEN Append(input, value) ELSE input
        /\ builder' = IF sink = "builder" THEN applyEvents(builder, q.events) ELSE builder
        /\ UNCHANGED <<finalizer_, sink, ncalls, background>>
        /\ UNCHANGED imageVars

\* SixelParser::finalize
Finalize ==
    LET q == done(Parser, finalizer_)
    IN  /\ sink = "builder" => lastCall # <<"finalize">>
        /\ state_' = q.state_
        /\ params_' = q.params_
        /\ emitted' = q.events
        /\ lastCall' = <<"finalize">>
        /\ builder' = IF sink = "builder" THEN applyEvents(builder, q.events) ELSE builder
        /\ UNCHANGED <<finalizer_, sink, input, ncalls, background>>
        /\ UNCHANGED imageVars

Next ==
    \/ \E value \in CodePoints : Pass(value)
    \/ Finalize

Spec == Init /\ [][Next]_vars

-----------------------------------------------------------------------------
(* The builder called directly through its Events interface and clear      *)

\* maximum sizes of the builders that are called directly
BuilderRasters == {Size(2, 7), Size(1, 12), Size(1, 18)}

\* palettes of the builders that are called directly
BuilderPalettes == {PaletteNew(2, 4), PaletteSetColor(PaletteNew(3, 8), 1, Red)}

\* sixel values rendered: no pin, pins 0 and 5, all six pins
Sixels == {0, 33, 63}

\* sizes asked for with setRaster
RasterRequests == {Size(0, 0), Size(1, 6), Size(2, 7), Size(3, 20)}

InitBuilder ==
    /\ state_ = "Ground"
    /\ params_ = <<>>
    /\ finalizer_ = FALSE
    /\ sink = "none"
    /\ emitted = <<>>
    /\ input = <<>>
    /\ lastCall = <<"construct">>
    /\ ncalls = 0
    /\ background \in Backgrounds
    /\ \E maxSize \in BuilderRasters, pal \in BuilderPalettes :
            builder = BuilderNew(maxSize, 1, 1, background, pal)
    /\ NoImages

\* one direct call: the builder becomes b, call is the operation with its arguments
Call(call, b) ==
    /\ ncalls < MaxCalls
    /\ ncalls' = ncalls + 1
    /\ lastCall' = call
    /\ builder' = b
    /\ UNCHANGED <<state_, params_, finalizer_, sink, emitted, input, background>>
    /\ UNCHANGED imageVars

CallRender == \E sixel \in Sixels : Call(<<"render", sixel>>, render(builder, sixel))

CallRewind == Call(<<"rewind">>, rewind(builder))

CallNewline == Call(<<"newline">>, newline(builder))

CallUseColor == \E index \in {0, 1, 5} : Call(<<"useColor", index>>, useColor(builder, index))

CallSetColor ==
    \E index \in {1, 5} : Call(<<"setColor", index, Red>>, setColor(builder, index, Red))

CallSetRaster ==
    \E size \in RasterRequests, pan \in {1, 2} :
        Call(<<"setRaster", pan, 1, size.width, size.height>>,
             setRaster(builder, pan, 1, size))

CallClear == \E fill \in Backgrounds : Call(<<"clear", fill>>, clear(builder, fill))

NextBuilder ==
    \/ CallRender
    \/ CallRewind
    \/ CallNewline
    \/ CallUseColor
    \/ CallSetColor
    \/ CallSetRaster
    \/ CallClear

SpecBuilder == InitBuilder /\ [][NextBuilder]_vars

\* a freshly constructed builder that only receives render, rewind and newline
NextCursor ==
    \/ CallRender
    \/ CallRewind
    \/ CallNewline

SpecCursor == InitBuilder /\ [][NextCursor]_vars

-----------------------------------------------------------------------------
(* The parser about to leave ColorParam with an RGB colour definition      *)

\* params_ after "#5;2;<v>;0;100" for a colour component v
InitScale ==
    /\ state_ = "ColorParam"
    /\ \E v \in 0..MaxScaleIn : params_ = <<5, 2, v, 0, 100>>
    /\ finalizer_ = FALSE
    /\ sink = "recorder"
    /\ emitted = <<>>
    /\ input = <<>>
    /\ lastCall = <<"pass", 48>>
    /\ ncalls = 0
    /\ background = OpaqueBlack
    /\ builder = IdleBuilder
    /\ NoImages

\* the colour definition is finalized once
FinalizeOnce == lastCall # <<"finalize">> /\ Finalize

SpecScale == InitScale /\ [][FinalizeOnce]_vars

-----------------------------------------------------------------------------
(* Vocabulary of the properties                                            *)

\* the pixels of the builder's raster, as <<row, column>>
Pixels == (0..(builder.size_.height - 1)) \X (0..(builder.size_.width - 1))

\* the RGBA value render writes for palette entry index
Painted(index) == PaletteAt(builder.colors_, index) \o <<255>>

\* a builder is attached and has received exactly the code points of script
Parsed(script) == sink = "builder" /\ input = script /\ lastCall # <<"finalize">>

\* ... and the parser was then finalized
Finalized(script) == sink = "builder" /\ input = script /\ lastCall = <<"finalize">>

\* the first n code points of script
Prefix(script, n) == SubSeq(script, 1, n)

-----------------------------------------------------------------------------
(* C1 as stated: after "#1?~" and finalize on a fresh builder with a black *)
(* background, palette entry 1 red and at least 6 rows, column 0 rows 0..5  *)
(* is red and every other pixel is black.                                  *)
C1_Original ==
    (/\ Finalized(ScriptSingle)
     /\ background = OpaqueBlack
     /\ PaletteAt(builder.colors_, 1) = Red
     /\ builder.size_.height >= 6)
    => \A px \in Pixels :
          PixelAt(builder, px[1], px[2]) =
              IF px[2] = 0 /\ px[1] \in 0..5 THEN <<255, 0, 0, 255>> ELSE OpaqueBlack

(* C1 amended: '?' is itself a sixel byte (value 0): it renders an empty    *)
(* column at column 0 and advances the cursor, so after "#1?~" and finalize *)
(* it is column 1, rows 0..5, that is red and every other pixel is black.   *)
C1_SingleSixel ==
    (/\ Finalized(ScriptSingle)
     /\ background = OpaqueBlack
     /\ PaletteAt(builder.colors_, 1) = Red
     /\ builder.size_.height >= 6)
    => /\ \A px \in Pixels :
             PixelAt(builder, px[1], px[2]) =
                 IF px[2] = 1 /\ px[1] \in 0..5 THEN <<255, 0, 0, 255>> ELSE OpaqueBlack
       /\ builder.sixelCursor_ = [row |-> 0, column |-> Min(2, builder.size_.width)]

C1_Witness ==
    /\ Finalized(ScriptSingle)
    /\ background = OpaqueBlack
    /\ PaletteAt(builder.colors_, 1) = Red
    /\ builder.size_.height >= 6
    /\ builder.size_.width >= 2
    /\ PixelAt(builder, 5, 1) = <<255, 0, 0, 255>>

-----------------------------------------------------------------------------
(* C2: in RepeatIntroducer a sixel byte b emits render(b) exactly          *)
(* params[0] times (none when no digit followed '!') and the parser is     *)
(* then in Ground; after "#2!4N" on a fresh raster at least 4 columns wide *)
(* the pixels of columns 0..3 hold palette[2] in rows 0..3 and the         *)
(* background in rows 4..5, and the cursor is at column 4.                 *)
C2_RepeatStep ==
    \A b \in CodePoints :
        (state_ = "RepeatIntroducer" /\ lastCall' = <<"pass", b>> /\ isSixel(b))
        => /\ emitted' = [k \in 1..params_[1] |-> <<"render", b - 63>>]
           /\ state_' = "Ground"

C2_Scenario ==
    (Parsed(ScriptRepeat) /\ builder.size_.width >= 4)
    => /\ \A px \in Pixels :
             (px[2] <= 3 /\ px[1] <= 5) =>
                 PixelAt(builder, px[1], px[2]) =
                     IF px[1] <= 3 THEN Painted(2) ELSE background
       /\ builder.sixelCursor_.column = 4

\* C2: every step repeats as said, and the scenario holds in the state reached
C2_Repeat == [][C2_RepeatStep /\ C2_Scenario']_vars

C2_Witness ==
    /\ Parsed(ScriptRepeat)
    /\ builder.size_.width >= 4
    /\ builder.size_.height >= 6
    /\ emitted = <<<<"render", 15>>, <<"render", 15>>, <<"render", 15>>, <<"render", 15>>>>
    /\ PixelAt(builder, 3, 3) = Painted(2)
    /\ Painted(2) # background

-----------------------------------------------------------------------------
(* C3: on a fresh raster at least 12 rows high "#1~-~" paints column 0     *)
(* rows 0..5 with palette[1], then '-' moves the cursor to row 6 column 0, *)
(* then the second '~' paints column 0 rows 6..11; no other pixel changes. *)
C3_Newline ==
    builder.size_.height >= 12 =>
        /\ Parsed(Prefix(ScriptNewline, 3)) =>
              /\ \A px \in Pixels :
                    PixelAt(builder, px[1], px[2]) =
                        IF px[2] = 0 /\ px[1] \in 0..5 THEN Painted(1) ELSE background
              /\ builder.sixelCursor_.row = 0
        /\ Parsed(Prefix(ScriptNewline, 4)) =>
              /\ \A px \in Pixels :
                    PixelAt(builder, px[1], px[2]) =
                        IF px[2] = 0 /\ px[1] \in 0..5 THEN Painted(1) ELSE background
              /\ builder.sixelCursor_ = [row |-> 6, column |-> 0]
        /\ Parsed(ScriptNewline) =>
              \A px \in Pixels :
                  PixelAt(builder, px[1], px[2]) =
                      IF px[2] = 0 /\ px[1] \in 0..11 THEN Painted(1) ELSE background

C3_Witness ==
    /\ Parsed(ScriptNewline)
    /\ builder.size_.height >= 12
    /\ PixelAt(builder, 11, 0) = Painted(1)
    /\ Painted(1) # background
    /\ builder.sixelCursor_ = [row |-> 6, column |-> 1]

-----------------------------------------------------------------------------
(* C4 as stated: "#5;2;100;0;0" and finalize, with a palette cap above 5,  *)
(* selects colour 5 as the current colour and defines palette[5] as        *)
(* RGB(255, 0, 0).                                                         *)
C4_Original ==
    (Finalized(ScriptColorDef) /\ builder.colors_.maxSize_ > 5)
    => /\ builder.currentColor_ = 5
       /\ Len(builder.colors_.palette_) > 5
       /\ builder.colors_.palette_[6] = <<255, 0, 0>>

(* C4 amended: a colour definition only defines: "#5;2;100;0;0" and        *)
(* finalize, with a palette cap above 5, emits the single event            *)
(* setColor(5, RGB(255, 0, 0)), after which palette[5] is RGB(255, 0, 0);  *)
(* the current colour is not changed (it stays index 0).                   *)
C4_ColorDefinition ==
    (Finalized(ScriptColorDef) /\ builder.colors_.maxSize_ > 5)
    => /\ Len(builder.colors_.palette_) > 5
       /\ builder.colors_.palette_[6] = <<255, 0, 0>>
       /\ builder.currentColor_ = 0
       /\ \A k \in 1..Len(emitted) : emitted[k][1] # "useColor"

C4_Witness ==
    /\ Finalized(ScriptColorDef)
    /\ builder.colors_.maxSize_ > 5
    /\ builder.colors_.palette_[6] = <<255, 0, 0>>
    /\ emitted[1] = <<"setColor", 5, <<255, 0, 0>>>>

-----------------------------------------------------------------------------
\* the call that was just made is finalize
IsFinalize(call) == call[1] = "finalize"

\* the call that was just made makes the parser leave ColorParam or RasterSettings:
\* finalize, or a code point that is neither a digit nor ';'
Leaving(call) ==
    \/ call[1] = "finalize"
    \/ call[1] = "pass" /\ ~isDigit(call[2]) /\ call[2] # 59

\* the useColor, setColor and setRaster events among events
LeaveEvents(events) ==
    SelectSeq(events, LAMBDA e : e[1] \in {"useColor", "setColor", "setRaster"})

(* C5: finalize, in any parser state, first emits the pending leave-action *)
(* event of the current state if there is one (useColor or setColor from   *)
(* ColorParam, setRaster from RasterSettings), then calls the finalizer    *)
(* exactly once if one was supplied, and leaves the parser in Ground; no   *)
(* other event is emitted.                                                 *)
C5_FinalizeStep ==
    IsFinalize(lastCall') =>
        LET pending == leaveState(Parser).events
        IN  /\ emitted' = pending \o (IF finalizer_ THEN <<<<"finalizer">>>> ELSE <<>>)
            /\ Len(pending) <= 1
            /\ \A k \in 1..Len(pending) :
                  \/ state_ = "ColorParam" /\ pending[k][1] \in {"useColor", "setColor"}
                  \/ state_ = "RasterSettings" /\ pending[k][1] = "setRaster"
            /\ state_' = "Ground"

\* C5: every finalize step emits the pending leave event, then the finalizer
C5_Finalize == [][C5_FinalizeStep]_vars

C5_Witness ==
    /\ IsFinalize(lastCall)
    /\ finalizer_
    /\ Len(emitted) = 2
    /\ emitted[1][1] = "setRaster"
    /\ emitted[2] = <<"finalizer">>
    /\ state_ = "Ground"

-----------------------------------------------------------------------------
(* C6: leaving ColorParam emits useColor(params[0]) iff there is exactly   *)
(* one parameter, setColor(params[0], ..) iff there are exactly five and   *)
(* the second is 2, and otherwise nothing, palette and current colour      *)
(* staying as they are; leaving RasterSettings emits                       *)
(* setRaster(pan, pad, Size{xPixels, yPixels}) iff there are exactly four  *)
(* parameters; no other step emits any of these events.                    *)
C6_LeaveStep ==
    LET left == LeaveEvents(emitted')
    IN  IF state_ = "ColorParam" /\ Leaving(lastCall')
        THEN IF Len(params_) = 1
             THEN left = <<<<"useColor", params_[1]>>>>
             ELSE IF Len(params_) = 5 /\ params_[2] = 2
             THEN Len(left) = 1 /\ left[1][1] = "setColor" /\ left[1][2] = params_[1]
             ELSE /\ left = <<>>
                  /\ builder'.colors_ = builder.colors_
                  /\ builder'.currentColor_ = builder.currentColor_
        ELSE IF state_ = "RasterSettings" /\ Leaving(lastCall')
        THEN IF Len(params_) = 4
             THEN left = <<<<"setRaster", params_[1], params_[2], params_[3], params_[4]>>>>
             ELSE left = <<>>
        ELSE left = <<>>

\* C6: every step emits leave events for the exact parameter counts only
C6_LeaveActions == [][C6_LeaveStep]_vars

\* "#1;1;100;0;0" was finalized with a builder attached: nothing was emitted
C6_Witness ==
    /\ Finalized(ScriptColorHSL)
    /\ ~finalizer_
    /\ params_ = <<1, 1, 100, 0, 0>>
    /\ emitted = <<>>
    /\ builder.currentColor_ = 0

-----------------------------------------------------------------------------
\* floor(v * 255 / 100) mod 256
Scale(v) == ((v * 255) \div 100) % 256

(* C7 as stated: leaving ColorParam with (index, 2, a, b, c) emits         *)
(* setColor(index, RGB(scale(a), scale(b), scale(c))) with                 *)
(* scale(v) = floor(v * 255 / 100) mod 256, for every v.                   *)
C7_OriginalStep ==
    IsFinalize(lastCall') =>
        emitted' = <<<<"setColor", params_[1],
                       <<Scale(params_[3]), Scale(params_[4]), Scale(params_[5])>>>>>>

\* C7 as stated: every colour component is scaled to floor(v * 255 / 100) mod 256
C7_Original == [][C7_OriginalStep]_vars

(* C7 amended: the components are scaled in single-precision floating      *)
(* point, which agrees with floor(v * 255 / 100) mod 256 for every         *)
(* v <= 263179: for those, leaving ColorParam with (index, 2, a, b, c)     *)
(* emits setColor(index, RGB(scale(a), scale(b), scale(c))), each          *)
(* component lies in 0..255, scale(0) = 0, scale(100) = 255, and a value   *)
(* above 100 wraps modulo 256 instead of saturating.                       *)
C7_ScaleStep ==
    (IsFinalize(lastCall') /\ \A k \in 3..5 : params_[k] <= 263179) =>
        /\ emitted' = <<<<"setColor", params_[1],
                          <<Scale(params_[3]), Scale(params_[4]), Scale(params_[5])>>>>>>
        /\ \A k \in 1..3 : emitted'[1][3][k] \in 0..255
        /\ \A k \in 3..5 : /\ params_[k] = 0 => emitted'[1][3][k - 2] = 0
                           /\ params_[k] = 100 => emitted'[1][3][k - 2] = 255

\* C7 amended: components up to 263179 are scaled to floor(v * 255 / 100) mod 256
C7_Scale == [][C7_ScaleStep]_vars

\* 101 was scaled to floor(257.55) mod 256 = 1
C7_Witness ==
    /\ IsFinalize(lastCall)
    /\ params_ = <<5, 2, 101, 0, 100>>
    /\ emitted = <<<<"setColor", 5, <<1, 0, 255>>>>>>

-----------------------------------------------------------------------------
(* C8: in every reachable state of the builder the pixel buffer has        *)
(* exactly 4 * size.w * size.h bytes and size.w <= maxSize.w,              *)
(* size.h <= maxSize.h; right after setRaster(_, _, s) the size is         *)
(* (min(s.w, maxSize.w), min(s.h, maxSize.h)).                             *)
C8_BufferSize ==
    /\ Len(builder.buffer_) = 4 * builder.size_.width * builder.size_.height
    /\ builder.size_.width \in 0..builder.maxSize_.width
    /\ builder.size_.height \in 0..builder.maxSize_.height
    /\ lastCall[1] = "setRaster" =>
          builder.size_ = Size(Min(lastCall[4], builder.maxSize_.width),
                               Min(lastCall[5], builder.maxSize_.height))

\* setRaster asked for more than maxSize and was clamped
C8_Witness ==
    /\ lastCall[1] = "setRaster"
    /\ lastCall[4] > builder.maxSize_.width
    /\ lastCall[5] > builder.maxSize_.height
    /\ builder.size_ = builder.maxSize_
    /\ ncalls >= 2

-----------------------------------------------------------------------------
\* bit i of the sixel value s
Pin(s, i) == (s \div Pow2(i)) % 2 = 1

(* C9: render(s) with the cursor column inside the raster writes the       *)
(* current palette colour with alpha 255 at (row + i, column) for exactly  *)
(* the i in 0..5 whose bit of s is set and whose row is inside the raster, *)
(* leaves every other pixel as it was, and advances the column by one, the *)
(* row unchanged; with the column at or beyond size.w it changes neither   *)
(* the buffer nor the cursor.                                              *)
C9_RenderStep ==
    lastCall'[1] = "render" =>
        LET s   == lastCall'[2]
            row == builder.sixelCursor_.row
            col == builder.sixelCursor_.column
        IN  IF col < builder.size_.width
            THEN /\ builder' = [builder EXCEPT !.buffer_ = builder'.buffer_,
                                               !.sixelCursor_.column = col + 1]
                 /\ Len(builder'.buffer_) = Len(builder.buffer_)
                 /\ \A px \in Pixels :
                       PixelAt(builder', px[1], px[2]) =
                           IF px[2] = col /\ px[1] - row \in 0..5 /\ Pin(s, px[1] - row)
                           THEN PaletteAt(builder.colors_, builder.currentColor_) \o <<255>>
                           ELSE PixelAt(builder, px[1], px[2])
            ELSE builder' = builder

\* C9: every render step paints exactly the set pins inside the raster
C9_Render == [][C9_RenderStep]_vars

\* a sixel with pins 0 and 5 rendered on the last row of a 7-row raster: only
\* pin 0 is inside, and the pixel became opaque
C9_Witness ==
    /\ lastCall = <<"render", 33>>
    /\ builder.size_ = Size(2, 7)
    /\ builder.sixelCursor_ = [row |-> 6, column |-> 1]
    /\ background[4] = 0
    /\ PixelAt(builder, 6, 0) = PaletteAt(builder.colors_, builder.currentColor_) \o <<255>>

-----------------------------------------------------------------------------
(* C10: from a freshly constructed builder, after any sequence of render,  *)
(* rewind and newline, sixelCursor.row is a multiple of 6 and              *)
(* 0 <= sixelCursor.column <= size.w.                                      *)
C10_CursorDiscipline ==
    /\ builder.sixelCursor_.row % 6 = 0
    /\ builder.sixelCursor_.column \in 0..builder.size_.width

\* a render at the right edge, on the second band, was dropped
C10_Witness ==
    /\ lastCall[1] = "render"
    /\ ncalls >= 3
    /\ builder.sixelCursor_.row = 6
    /\ builder.sixelCursor_.column = builder.size_.width

-----------------------------------------------------------------------------
(* A SixelColorPalette called directly                                     *)

\* largest initial size and cap a palette is constructed with
MaxPaletteSize == 3

\* the sizes, caps and indexes handed to the palette
PaletteSizes == 0..(MaxPaletteSize + 1)

\* the colours stored with setColor
PaletteColors == {Red, <<0, 0, 0>>}

\* the decoder's variables
decoderVars == <<state_, params_, finalizer_, sink, emitted, input, background, builder>>

\* no parser and no builder in use
NoDecoder ==
    /\ state_ = "Ground"
    /\ params_ = <<>>
    /\ finalizer_ = FALSE
    /\ sink = "none"
    /\ emitted = <<>>
    /\ input = <<>>
    /\ background = OpaqueBlack
    /\ builder = IdleBuilder

InitPalette ==
    /\ NoDecoder
    /\ lastCall = <<"construct">>
    /\ ncalls = 0
    /\ \E size \in 0..MaxPaletteSize, maxSize \in 0..MaxPaletteSize :
            palette = PaletteNew(size, maxSize)
    /\ pool = <<>>
    /\ threads = <<>>
    /\ renderer = <<>>
    /\ tile = <<>>

\* one call on the palette: it becomes p
PaletteCall(call, p) ==
    /\ palette' = p
    /\ lastCall' = call
    /\ UNCHANGED <<decoderVars, ncalls, pool, threads, renderer, tile>>

CallPaletteSetColor ==
    \E index \in PaletteSizes, color \in PaletteColors :
        PaletteCall(<<"setColor", index, color>>, PaletteSetColor(palette, index, color))

CallPaletteSetSize ==
    \E newSize \in PaletteSizes :
        PaletteCall(<<"setSize", newSize>>, PaletteSetSize(palette, newSize))

CallPaletteSetMaxSize ==
    \E value \in PaletteSizes :
        PaletteCall(<<"setMaxSize", value>>, PaletteSetMaxSize(palette, value))

CallPaletteReset == PaletteCall(<<"reset">>, PaletteReset(palette))

NextPalette ==
    \/ CallPaletteSetColor
    \/ CallPaletteSetSize
    \/ CallPaletteSetMaxSize
    \/ CallPaletteReset

SpecPalette == InitPalette /\ [][NextPalette]_vars

-----------------------------------------------------------------------------
(* C11 as stated: in every reachable state of a palette - after            *)
(* construction with any (initial size, maxSize) pair and after any        *)
(* sequence of setColor, setSize, setMaxSize and reset - the length of the *)
(* palette is at most maxSize.                                             *)
C11_Original == Len(palette.palette_) <= palette.maxSize_

-----------------------------------------------------------------------------
(* C12: setColor(i, rgb) with i >= maxSize leaves the palette (length and  *)
(* every entry) unchanged; with i < maxSize the length becomes             *)
(* max(old length, i + 1), entry i is rgb, every entry below the old       *)
(* length other than i is unchanged, and every newly created entry other   *)
(* than i is black (0, 0, 0) rather than a VT340 default.                  *)
C12_SetColorStep ==
    lastCall'[1] = "setColor" =>
        LET i   == lastCall'[2]
            rgb == lastCall'[3]
            old == palette.palette_
            new == palette'.palette_
        IN  IF i >= palette.maxSize_
            THEN palette' = palette
            ELSE /\ Len(new) = Max(Len(old), i + 1)
                 /\ new[i + 1] = rgb
                 /\ \A k \in 1..Len(old) : k # i + 1 => new[k] = old[k]
                 /\ \A k \in (Len(old) + 1)..Len(new) : k # i + 1 => new[k] = <<0, 0, 0>>
                 /\ palette'.maxSize_ = palette.maxSize_

\* C12: every setColor step stores, grows with black entries, or does nothing
C12_SetColor == [][C12_SetColorStep]_vars

\* setColor(3, red) grew a palette of two entries: entry 2 is new and black where the
\* VT340 default is (204, 33, 33), and entries 0 and 1 are the defaults they were
C12_Witness ==
    /\ lastCall = <<"setColor", 3, Red>>
    /\ Len(palette.palette_) = 4
    /\ palette.palette_[4] = Red
    /\ palette.palette_[3] = <<0, 0, 0>>
    /\ palette.palette_[3] # defaultColors[3]
    /\ palette.palette_[2] = defaultColors[2]
    /\ palette.palette_[1] = defaultColors[1]

-----------------------------------------------------------------------------
(* A builder over a palette of any initial size, receiving useColor and    *)
(* setColor                                                                *)

\* the indexes handed to useColor and setColor
ColorIndexes == 0..(MaxPaletteSize + 1)

\* _index % colors_->size() with an empty palette divides by zero, which is undefined:
\* the builders it may leave behind when the process goes on (any currentColor_)
useColorUndefined(b) == {[b EXCEPT !.currentColor_ = v] : v \in ColorIndexes}

InitColors ==
    /\ state_ = "Ground"
    /\ params_ = <<>>
    /\ finalizer_ = FALSE
    /\ sink = "none"
    /\ emitted = <<>>
    /\ input = <<>>
    /\ lastCall = <<"construct">>
    /\ ncalls = 0
    /\ background = OpaqueBlack
    /\ \E maxSize \in 0..MaxPaletteSize :
          \E size \in 0..maxSize :
              builder = BuilderNew(Size(1, 1), 1, 1, background, PaletteNew(size, maxSize))
    /\ NoImages

\* the process was not ended by a division by zero
Running == lastCall[1] # "trap"

\* SixelImageBuilder::useColor: with an empty palette the division either ends the
\* process or yields some value
ColorsUseColor ==
    /\ Running
    /\ \E index \in ColorIndexes :
          IF Len(builder.colors_.palette_) > 0
          THEN Call(<<"useColor", index>>, useColor(builder, index))
          ELSE \/ Call(<<"trap", index>>, builder)
               \/ \E b \in useColorUndefined(builder) : Call(<<"useColor", index>>, b)

ColorsSetColor ==
    /\ Running
    /\ \E index \in ColorIndexes :
          Call(<<"setColor", index, Red>>, setColor(builder, index, Red))

NextColors ==
    \/ ColorsUseColor
    \/ ColorsSetColor

SpecColors == InitColors /\ [][NextColors]_vars

-----------------------------------------------------------------------------
(* C13 as stated: in every reachable state of the builder, for every       *)
(* initial palette size from 0 up to its cap and every sequence of         *)
(* useColor and setColor events, currentColor < palette.length, and        *)
(* useColor(index) sets currentColor to index mod palette.length.          *)
C13_Original ==
    /\ builder.currentColor_ < Len(builder.colors_.palette_)
    /\ lastCall[1] = "useColor" =>
          builder.currentColor_ = lastCall[2] % Len(builder.colors_.palette_)

-----------------------------------------------------------------------------
(* ImagePool                                                               *)
(* An Image is named by its id and a RasterizedImage by its address, which *)
(* stand for the addresses the deleters compare.  Besides the members of   *)
(* the pool the record counts the shared handles held outside the pool     *)
(* (imageHandles, rasterizedHandles) and logs the calls of onImageRemove_  *)
(* (observed: the image and images_ as it was during the call).            *)

\* images created by one pool
MaxImages == 2
\* rasterizations made by one pool
MaxRasterized == 2
\* handles to the pool's entries held outside the pool at the same time
MaxHandles == 3

ImageIds == 1..MaxImages

RasterizedIds == 1..MaxRasterized

\* the names images are linked under
Names == {"a", "b"}

\* the pool after construction
PoolNew ==
    [images_           |-> <<>>,
     rasterizedImages_ |-> <<>>,
     namedImages_      |-> <<>>,
     nextImageId_      |-> 1,
     nextRasterized    |-> 1,
     imageHandles      |-> [i \in ImageIds |-> 0],
     rasterizedHandles |-> [r \in RasterizedIds |-> 0],
     observed          |-> <<>>]

Contains(seq, x) == \E k \in 1..Len(seq) : seq[k] = x

\* the images the entries of rasterizedImages_ refer to
RasterizedOf(p, image) ==
    {k \in 1..Len(p.rasterizedImages_) : p.rasterizedImages_[k].image_ = image}

\* the names linked to image
NamesOf(p, image) == {n \in DOMAIN p.namedImages_ : p.namedImages_[n] = image}

\* use_count() of the shared handles to image: those held outside the pool, those in
\* namedImages_ and those owned by the entries of rasterizedImages_
UseCount(p, image) ==
    p.imageHandles[image] + Cardinality(NamesOf(p, image))
        + Cardinality(RasterizedOf(p, image))
\* removeImage that erases the entry before it tells the observer
removeImage_EraseFirst(p, image) ==
    IF Contains(p.images_, image)
    THEN LET erased == SelectSeq(p.images_, LAMBDA e : e # image)
         IN  [p EXCEPT !.images_ = erased,
                       !.observed = Append(@, [image |-> image, images |-> erased])]
    ELSE p

removeImage(p, image) ==
    IF Contains(p.images_, image)
    THEN [p EXCEPT !.observed = Append(@, [image |-> image, images |-> p.images_]),
                   !.images_ = SelectSeq(@, LAMBDA e : e # image)]
    ELSE p

\* a shared handle to image was destroyed: the deleter given in create runs when it was
\* the last one
release(p, image) == IF UseCount(p, image) = 0 THEN removeImage(p, image) ELSE p

create(p) ==
    [p EXCEPT !.images_ = Append(@, p.nextImageId_),
              !.nextImageId_ = @ + 1,
              !.imageHandles[p.nextImageId_] = 1]

\* _image is passed by value: the caller hands in a copy of its handle, or moves it in
rasterize(p, image, moved) ==
    [p EXCEPT !.rasterizedImages_ = Append(@, [address |-> p.nextRasterized, image_ |-> image]),
              !.nextRasterized = @ + 1,
              !.rasterizedHandles[p.nextRasterized] = 1,
              !.imageHandles[image] = IF moved THEN @ - 1 ELSE @]
\* removeRasterizedImage that erases every rasterization of the same image
removeRasterizedImage_SameImage(p, address) ==
    IF \E k \in 1..Len(p.rasterizedImages_) : p.rasterizedImages_[k].address = address
    THEN LET k == CHOOSE k \in 1..Len(p.rasterizedImages_) :
                      p.rasterizedImages_[k].address = address
             image == p.rasterizedImages_[k].image_
             q == [p EXCEPT !.rasterizedImages_ = SelectSeq(@, LAMBDA e : e.image_ # image)]
         IN  release(q, image)
    ELSE p

\* erasing the entry destroys the RasterizedImage and, with it, its handle to the image
removeRasterizedImage(p, address) ==
    IF \E k \in 1..Len(p.rasterizedImages_) : p.rasterizedImages_[k].address = address
    THEN LET k == CHOOSE k \in 1..Len(p.rasterizedImages_) :
                      p.rasterizedImages_[k].address = address
             image == p.rasterizedImages_[k].image_
             q == [p EXCEPT !.rasterizedImages_ = SelectSeq(@, LAMBDA e : e.address # address)]
         IN  release(q, image)
    ELSE p

\* namedImages_[_name] = std::move(_imageRef): the handle stored before, if any, is
\* destroyed by the assignment
link(p, name, image, moved) ==
    LET had == name \in DOMAIN p.namedImages_
        old == IF had THEN p.namedImages_[name] ELSE image
        q == [p EXCEPT !.namedImages_ =
                           [n \in (DOMAIN p.namedImages_) \cup {name} |->
                               IF n = name THEN image ELSE p.namedImages_[n]],
                       !.imageHandles[image] = IF moved THEN @ - 1 ELSE @]
    IN  IF had THEN release(q, old) ELSE q

\* the caller receives a copy of the handle stored under name, if there is one
findImageByName(p, name) ==
    IF name \in DOMAIN p.namedImages_
    THEN [p EXCEPT !.imageHandles[p.namedImages_[name]] = @ + 1]
    ELSE p
\* unlink that also removes the image the name referred to
unlink_RemoveImage(p, name) ==
    IF name \in DOMAIN p.namedImages_
    THEN LET old == p.namedImages_[name]
             q == [p EXCEPT !.namedImages_ =
                               [n \in (DOMAIN p.namedImages_) \ {name} |-> p.namedImages_[n]]]
         IN  removeImage(q, old)
    ELSE p

unlink(p, name) ==
    IF name \in DOMAIN p.namedImages_
    THEN LET old == p.namedImages_[name]
             q == [p EXCEPT !.namedImages_ =
                               [n \in (DOMAIN p.namedImages_) \ {name} |-> p.namedImages_[n]]]
         IN  release(q, old)
    ELSE p

\* a handle to image held outside the pool is destroyed
dropImage(p, image) == release([p EXCEPT !.imageHandles[image] = @ - 1], image)

\* a handle to the rasterization at address held outside the pool is destroyed: the
\* deleter given in rasterize runs when it was the last one
dropRasterized(p, address) ==
    LET q == [p EXCEPT !.rasterizedHandles[address] = @ - 1]
    IN  IF q.rasterizedHandles[address] = 0 THEN removeRasterizedImage(q, address) ELSE q

-----------------------------------------------------------------------------
(* The pool and the holders of its handles, one operation at a time        *)

InitPool ==
    /\ NoDecoder
    /\ lastCall = <<"construct">>
    /\ ncalls = 0
    /\ palette = [palette_ |-> <<>>, maxSize_ |-> 0]
    /\ pool = PoolNew
    /\ threads = <<>>
    /\ renderer = <<>>
    /\ tile = <<>>

\* one operation on the pool or on a handle: the pool becomes p
PoolCall(call, p) ==
    /\ pool' = p
    /\ lastCall' = call
    /\ UNCHANGED <<decoderVars, ncalls, palette, threads, renderer, tile>>

\* the number of handles held outside the pool
RECURSIVE SumTo(_, _)
SumTo(f, n) == IF n = 0 THEN 0 ELSE f[n] + SumTo(f, n - 1)

Holders(p) == SumTo(p.imageHandles, MaxImages) + SumTo(p.rasterizedHandles, MaxRasterized)

\* the images created so far
Created == 1..(pool.nextImageId_ - 1)

\* the rasterizations made so far
Rasterized == 1..(pool.nextRasterized - 1)

PoolCreate ==
    /\ pool.nextImageId_ <= MaxImages
    /\ Holders(pool) < MaxHandles
    /\ PoolCall(<<"create">>, create(pool))

\* a holder copies its handle to an image
PoolCopyImage ==
    \E image \in Created :
        /\ pool.imageHandles[image] > 0
        /\ Holders(pool) < MaxHandles
        /\ PoolCall(<<"copyImage", image>>, [pool EXCEPT !.imageHandles[image] = @ + 1])

PoolDropImage ==
    \E image \in Created :
        /\ pool.imageHandles[image] > 0
        /\ PoolCall(<<"dropImage", image>>, dropImage(pool, image))

PoolRasterize ==
    \E image \in Created, moved \in BOOLEAN :
        /\ pool.imageHandles[image] > 0
        /\ pool.nextRasterized <= MaxRasterized
        /\ moved \/ Holders(pool) < MaxHandles
        /\ PoolCall(<<"rasterize", image, moved>>, rasterize(pool, image, moved))

\* a holder copies its handle to a rasterization
PoolCopyRasterized ==
    \E address \in Rasterized :
        /\ pool.rasterizedHandles[address] > 0
        /\ Holders(pool) < MaxHandles
        /\ PoolCall(<<"copyRasterized", address>>,
                    [pool EXCEPT !.rasterizedHandles[address] = @ + 1])

PoolDropRasterized ==
    \E address \in Rasterized :
        /\ pool.rasterizedHandles[address] > 0
        /\ PoolCall(<<"dropRasterized", address>>, dropRasterized(pool, address))

PoolLink ==
    \E name \in Names, image \in Created, moved \in BOOLEAN :
        /\ pool.imageHandles[image] > 0
        /\ PoolCall(<<"link", name, image, moved>>, link(pool, name, image, moved))

PoolFind ==
    \E name \in Names :
        /\ name \in DOMAIN pool.namedImages_ => Holders(pool) < MaxHandles
        /\ PoolCall(<<"findImageByName", name>>, findImageByName(pool, name))

PoolUnlink == \E name \in Names : PoolCall(<<"unlink", name>>, unlink(pool, name))

NextPool ==
    \/ PoolCreate
    \/ PoolCopyImage
    \/ PoolDropImage
    \/ PoolRasterize
    \/ PoolCopyRasterized
    \/ PoolDropRasterized
    \/ PoolLink
    \/ PoolFind
    \/ PoolUnlink

SpecPool == InitPool /\ [][NextPool]_vars

-----------------------------------------------------------------------------
\* the calls of the removal observer made for image
ObserverCalls(image) == {k \in 1..Len(pool.observed) : pool.observed[k].image = image}

(* C14: for every image made by create the removal observer is invoked     *)
(* exactly once, when the last shared handle to the image is dropped and   *)
(* not before, and the image is still in the pool's image list while the   *)
(* observer runs; after the erase that follows the image is no longer in   *)
(* the list.                                                               *)
C14_RemovalObserver ==
    \A image \in Created :
        IF UseCount(pool, image) > 0
        THEN /\ Contains(pool.images_, image)
             /\ ObserverCalls(image) = {}
        ELSE /\ ~Contains(pool.images_, image)
             /\ Cardinality(ObserverCalls(image)) = 1
             /\ \A k \in ObserverCalls(image) : Contains(pool.observed[k].images, image)

\* the last handle to image 1 was dropped while image 2 lives on: the observer saw both
\* images in the list, and image 1 is gone from it
C14_Witness ==
    /\ lastCall = <<"dropImage", 1>>
    /\ pool.observed = <<[image |-> 1, images |-> <<1, 2>>]>>
    /\ pool.images_ = <<2>>

-----------------------------------------------------------------------------
\* every handle, inside the pool or outside, refers to an image in the image list
Alive(p) ==
    /\ \A n \in DOMAIN p.namedImages_ : Contains(p.images_, p.namedImages_[n])
    /\ \A k \in 1..Len(p.rasterizedImages_) :
          Contains(p.images_, p.rasterizedImages_[k].image_)
    /\ \A image \in ImageIds : p.imageHandles[image] > 0 => Contains(p.images_, image)

(* C15: an image entry is never erased while a shared handle to it exists: *)
(* under any interleaving of create, rasterize, link, unlink and handle    *)
(* drops every name of the name map and every entry of the rasterization   *)
(* list refers to an image still in the image list, and an image whose     *)
(* caller handles were all dropped leaves the list only in the step after  *)
(* which no name is linked to it and no rasterization of it remains.       *)
C15_AliveStep ==
    /\ Alive(pool')
    /\ \A image \in Created :
          (Contains(pool.images_, image) /\ ~Contains(pool'.images_, image))
          => /\ pool'.imageHandles[image] = 0
             /\ NamesOf(pool', image) = {}
             /\ RasterizedOf(pool', image) = {}
             /\ lastCall'[1] \in {"dropImage", "dropRasterized", "link", "unlink"}

\* C15: every step keeps the referents alive and erases only unreferenced images
C15_Alive == [][C15_AliveStep]_vars

\* every caller handle to image 1 is gone; a name and a rasterization keep it in the list
C15_Witness ==
    /\ lastCall = <<"dropImage", 1>>
    /\ pool.imageHandles[1] = 0
    /\ NamesOf(pool, 1) # {}
    /\ RasterizedOf(pool, 1) # {}
    /\ Contains(pool.images_, 1)
    /\ pool.observed = <<>>

-----------------------------------------------------------------------------
\* the step drops the last handle to the rasterization at lastCall'[2]
DropsLastRasterized ==
    /\ lastCall'[1] = "dropRasterized"
    /\ pool.rasterizedHandles[lastCall'[2]] = 1

\* the image of the rasterization at address
ImageOf(p, address) ==
    LET k == CHOOSE k \in 1..Len(p.rasterizedImages_) :
                 p.rasterizedImages_[k].address = address
    IN  p.rasterizedImages_[k].image_

\* the rasterization list without the entry at address
WithoutRasterized(p, address) ==
    SelectSeq(p.rasterizedImages_, LAMBDA e : e.address # address)

(* C16 as stated: dropping the last handle to a RasterizedImage removes    *)
(* exactly that entry from the rasterization list and changes nothing else *)
(* in the pool: the image list is unchanged and no removal observer is     *)
(* invoked, whatever other handles to the underlying image exist.          *)
C16_OriginalStep ==
    DropsLastRasterized =>
        /\ pool'.rasterizedImages_ = WithoutRasterized(pool, lastCall'[2])
        /\ Len(pool'.rasterizedImages_) = Len(pool.rasterizedImages_) - 1
        /\ pool'.images_ = pool.images_
        /\ pool'.observed = pool.observed
        /\ pool'.namedImages_ = pool.namedImages_

\* C16 as stated: the image list and the observer are never touched by the drop
C16_Original == [][C16_OriginalStep]_vars

(* C16 amended: dropping the last handle to a RasterizedImage removes      *)
(* exactly that entry from the rasterization list; the image list is       *)
(* unchanged and no removal observer is invoked as long as another handle  *)
(* to the underlying image exists (a caller's handle, a named link or      *)
(* another rasterization).  The entry owns a handle to its image: when it  *)
(* was the last one, the image is removed in the same step, the observer   *)
(* being invoked for it and the image then erased from the image list.     *)
C16_DropStep ==
    DropsLastRasterized =>
        LET address == lastCall'[2]
            image   == ImageOf(pool, address)
        IN  /\ pool'.rasterizedImages_ = WithoutRasterized(pool, address)
            /\ Len(pool'.rasterizedImages_) = Len(pool.rasterizedImages_) - 1
            /\ pool'.namedImages_ = pool.namedImages_
            /\ pool'.imageHandles = pool.imageHandles
            /\ IF UseCount(pool, image) > 1
               THEN /\ pool'.images_ = pool.images_
                    /\ pool'.observed = pool.observed
               ELSE /\ pool'.images_ = SelectSeq(pool.images_, LAMBDA e : e # image)
                    /\ pool'.observed =
                          Append(pool.observed, [image |-> image, images |-> pool.images_])

\* C16 amended: the entry goes, and its image goes with it only when unreferenced
C16_DropRasterized == [][C16_DropStep]_vars

\* the last handle to rasterization 1 was dropped; rasterization 2 of the same image
\* remains and the image, with no caller handle left, is still in the list
C16_Witness ==
    /\ lastCall = <<"dropRasterized", 1>>
    /\ pool.rasterizedHandles[1] = 0
    /\ pool.rasterizedImages_ = <<[address |-> 2, image_ |-> 1]>>
    /\ pool.imageHandles[1] = 0
    /\ pool.images_ = <<1>>
    /\ pool.observed = <<>>

-----------------------------------------------------------------------------
(* The pool used from two threads                                          *)
(* The owner thread creates images; either thread may hold handles and     *)
(* destroy them.  ImagePool takes no lock: create and removeImage are      *)
(* split where another thread can get in between, and threads records      *)
(* where each thread stands (pc), the image its removeImage is about       *)
(* (image) and the handles it holds (held).                                *)

Threads == {"owner", "other"}

ThreadsNew ==
    [pc    |-> [t \in Threads |-> "idle"],
     image |-> [t \in Threads |-> 0],
     held  |-> [t \in Threads |-> [i \in ImageIds |-> 0]]]

InitPoolThreads ==
    /\ NoDecoder
    /\ lastCall = <<"construct">>
    /\ ncalls = 0
    /\ palette = [palette_ |-> <<>>, maxSize_ |-> 0]
    /\ pool = PoolNew
    /\ threads = ThreadsNew
    /\ renderer = <<>>
    /\ tile = <<>>

\* thread t is inside removeImage
InRemoval(t) == threads.pc[t] \in {"removeImage:find", "removeImage:observe", "removeImage:erase"}

\* thread t is inside an operation on the pool's lists
InPool(t) == threads.pc[t] # "idle"

\* another thread is inside an operation on the lists while t accesses them: a data race
Races(t) == \E u \in Threads \ {t} : InPool(u)

\* what a write to images_ leaves behind: the list written, or, when the write races
\* with another thread's access, possibly the list as it was
Written(t, list) == IF Races(t) THEN {list, pool.images_} ELSE {list}

ThreadStep(call, t, pc, p, th) ==
    /\ pool' = p
    /\ threads' = [th EXCEPT !.pc[t] = pc]
    /\ lastCall' = call
    /\ UNCHANGED <<decoderVars, ncalls, palette, renderer, tile>>

\* the owner enters create
ThreadCreateBegin ==
    /\ threads.pc["owner"] = "idle"
    /\ pool.nextImageId_ <= MaxImages
    /\ ThreadStep(<<"create">>, "owner", "create:emplace_back", pool, threads)

\* images_.emplace_back(nextImageId_++, ...) and the handle returned
ThreadCreateEnd ==
    /\ threads.pc["owner"] = "create:emplace_back"
    /\ \E list \in Written("owner", create(pool).images_) :
          ThreadStep(<<"create">>, "owner", "idle",
                     [create(pool) EXCEPT !.images_ = list],
                     [threads EXCEPT !.held["owner"][pool.nextImageId_] = 1])

\* a thread hands a copy of its handle to the other thread
ThreadShare ==
    \E t \in Threads, image \in Created :
        /\ threads.pc[t] = "idle"
        /\ threads.held[t][image] > 0
        /\ Holders(pool) < MaxHandles
        /\ \E u \in Threads \ {t} :
              ThreadStep(<<"copyImage", image>>, t, "idle",
                         [pool EXCEPT !.imageHandles[image] = @ + 1],
                         [threads EXCEPT !.held[u][image] = @ + 1])

\* a thread destroys a handle; the deleter, removeImage, runs on that thread when it
\* was the last one
ThreadDrop ==
    \E t \in Threads, image \in Created :
        /\ threads.pc[t] = "idle"
        /\ threads.held[t][image] > 0
        /\ LET p == [pool EXCEPT !.imageHandles[image] = @ - 1]
           IN  ThreadStep(<<"dropImage", image>>, t,
                          IF UseCount(p, image) = 0 THEN "removeImage:find" ELSE "idle",
                          p,
                          [threads EXCEPT !.held[t][image] = @ - 1,
                                          !.image[t] = image])

\* find_if over images_
ThreadFind ==
    \E t \in Threads :
        /\ threads.pc[t] = "removeImage:find"
        /\ ThreadStep(<<"dropImage", threads.image[t]>>, t,
                      IF Contains(pool.images_, threads.image[t])
                      THEN "removeImage:observe" ELSE "idle",
                      pool, threads)

\* onImageRemove_(_image)
ThreadObserve ==
    \E t \in Threads :
        /\ threads.pc[t] = "removeImage:observe"
        /\ ThreadStep(<<"dropImage", threads.image[t]>>, t, "removeImage:erase",
                      [pool EXCEPT !.observed =
                          Append(@, [image |-> threads.image[t], images |-> pool.images_])],
                      threads)

\* images_.erase(i)
ThreadErase ==
    \E t \in Threads :
        /\ threads.pc[t] = "removeImage:erase"
        /\ \E list \in Written(t, SelectSeq(pool.images_, LAMBDA e : e # threads.image[t])) :
              ThreadStep(<<"dropImage", threads.image[t]>>, t, "idle",
                         [pool EXCEPT !.images_ = list], threads)

NextPoolThreads ==
    \/ ThreadCreateBegin
    \/ ThreadCreateEnd
    \/ ThreadShare
    \/ ThreadDrop
    \/ ThreadFind
    \/ ThreadObserve
    \/ ThreadErase

SpecPoolThreads == InitPoolThreads /\ [][NextPoolThreads]_vars

-----------------------------------------------------------------------------
(* C17 as stated: when the last handle to an image is dropped on a thread  *)
(* other than the pool's owner thread, the removal that follows (observer  *)
(* invocation and erase from the image list) never runs concurrently with  *)
(* another operation on the pool's lists: no other thread is inside        *)
(* create or inside a removal while it runs.                               *)
C17_Original ==
    \A t \in Threads \ {"owner"} :
        InRemoval(t) => \A u \in Threads \ {t} : ~InPool(u)

-----------------------------------------------------------------------------
(* Renderer: the queue of image discards                                   *)
(* The record holds discardImageQueue_, the holder of imageDiscardLock_    *)
(* ("free" when nobody holds it), the position of the loop of              *)
(* executeImageDiscards (index) and, as a history, every id enqueued       *)
(* (enqueued), every call of imageRenderer_.discardImage (discarded), the  *)
(* number of times executeImageDiscards took the lock (epoch) and what the *)
(* current call of render did so far (frame).                              *)

\* ids handed to Renderer::discardImage in one run
MaxDiscards == 3
\* calls of Renderer::render in one run
MaxRenders == 2
\* cells of the render buffer
MaxCells == 2

\* the threads that call Renderer::discardImage
Producers == {"screen", "other"}

RendererNew ==
    [discardImageQueue_ |-> <<>>,
     imageDiscardLock_  |-> "free",
     index              |-> 0,
     epoch              |-> 0,
     enqueued           |-> <<>>,
     discarded          |-> <<>>,
     frame              |-> <<>>,
     cells              |-> 0]

\* discardImageQueue_.emplace_back(_image.id())
discardImage(r, image) ==
    [r EXCEPT !.discardImageQueue_ = Append(@, image),
              !.enqueued = Append(@, [id |-> image, epoch |-> r.epoch])]

\* one turn of the loop of executeImageDiscards: imageRenderer_.discardImage(imageId)
executeImageDiscardsLoop(r) ==
    [r EXCEPT !.discarded = Append(@, [id |-> r.discardImageQueue_[r.index + 1],
                                        epoch |-> r.epoch]),
              !.index = @ + 1]
\* executeImageDiscards that leaves the queue as it is
executeImageDiscardsClear_Keep(r) == r

\* discardImageQueue_.clear()
executeImageDiscardsClear(r) == [r EXCEPT !.discardImageQueue_ = <<>>]

InitRenderer ==
    /\ NoDecoder
    /\ lastCall = <<"construct">>
    /\ ncalls = 0
    /\ palette = [palette_ |-> <<>>, maxSize_ |-> 0]
    /\ pool = <<>>
    /\ threads = [pc    |-> [t \in Producers \cup {"render"} |-> "idle"],
                  image |-> [t \in Producers |-> 0]]
    /\ renderer = RendererNew
    /\ tile = <<>>

\* one step of thread t, which goes on at pc
RendererStep(call, t, pc, r, th) ==
    /\ renderer' = r
    /\ threads' = [th EXCEPT !.pc[t] = pc]
    /\ lastCall' = <<call, t>>
    /\ UNCHANGED <<decoderVars, ncalls, palette, pool, tile>>

\* Renderer::discardImage: scoped_lock{imageDiscardLock_}
DiscardLock ==
    \E t \in Producers, image \in ImageIds :
        /\ threads.pc[t] = "idle"
        /\ Len(renderer.enqueued) + Cardinality({u \in Producers : threads.pc[u] # "idle"})
               < MaxDiscards
        /\ renderer.imageDiscardLock_ = "free"
        /\ RendererStep("discardImage:lock", t, "discardImage:emplace_back",
                        [renderer EXCEPT !.imageDiscardLock_ = t],
                        [threads EXCEPT !.image[t] = image])

DiscardEnqueue ==
    \E t \in Producers :
        /\ threads.pc[t] = "discardImage:emplace_back"
        /\ RendererStep("discardImage:emplace_back", t, "discardImage:unlock",
                        discardImage(renderer, threads.image[t]), threads)

DiscardUnlock ==
    \E t \in Producers :
        /\ threads.pc[t] = "discardImage:unlock"
        /\ RendererStep("discardImage:unlock", t, "idle",
                        [renderer EXCEPT !.imageDiscardLock_ = "free"], threads)

\* Renderer::render up to the call of executeImageDiscards
RenderBegin ==
    /\ threads.pc["render"] = "idle"
    /\ renderer.epoch < MaxRenders
    /\ \E cells \in 0..MaxCells :
          RendererStep("render", "render", "executeImageDiscards:lock",
                       [renderer EXCEPT !.frame = <<>>, !.cells = cells], threads)

\* Renderer::executeImageDiscards: scoped_lock{imageDiscardLock_}
DrainLock ==
    /\ threads.pc["render"] = "executeImageDiscards:lock"
    /\ renderer.imageDiscardLock_ = "free"
    /\ RendererStep("executeImageDiscards:lock", "render", "executeImageDiscards:loop",
                    [renderer EXCEPT !.imageDiscardLock_ = "render",
                                     !.epoch = @ + 1,
                                     !.index = 0],
                    threads)

DrainLoop ==
    /\ threads.pc["render"] = "executeImageDiscards:loop"
    /\ IF renderer.index < Len(renderer.discardImageQueue_)
       THEN RendererStep("executeImageDiscards:loop", "render", "executeImageDiscards:loop",
                         executeImageDiscardsLoop(renderer), threads)
       ELSE RendererStep("executeImageDiscards:clear", "render", "executeImageDiscards:unlock",
                         executeImageDiscardsClear(renderer), threads)

DrainUnlock ==
    /\ threads.pc["render"] = "executeImageDiscards:unlock"
    /\ RendererStep("executeImageDiscards:unlock", "render", "renderCells",
                    [renderer EXCEPT !.imageDiscardLock_ = "free",
                                     !.frame = Append(@, "drain")],
                    threads)

\* one turn of the loop of renderCells
RenderCell ==
    /\ threads.pc["render"] = "renderCells"
    /\ renderer.cells > 0
    /\ RendererStep("renderCells", "render", "renderCells",
                    [renderer EXCEPT !.cells = @ - 1, !.frame = Append(@, "cell")],
                    threads)

\* the rest of Renderer::render
RenderEnd ==
    /\ threads.pc["render"] = "renderCells"
    /\ renderer.cells = 0
    /\ RendererStep("render:execute", "render", "idle", renderer, threads)

NextRenderer ==
    \/ DiscardLock
    \/ DiscardEnqueue
    \/ DiscardUnlock
    \/ RenderBegin
    \/ DrainLock
    \/ DrainLoop
    \/ DrainUnlock
    \/ RenderCell
    \/ RenderEnd

SpecRenderer == InitRenderer /\ [][NextRenderer]_vars

-----------------------------------------------------------------------------
\* the ids of a sequence of history entries
Ids(entries) == [k \in 1..Len(entries) |-> entries[k].id]

(* C18: under any interleaving of Renderer::discardImage calls from other  *)
(* threads with executeImageDiscards on the render thread, every id        *)
(* enqueued is passed to the image renderer's discardImage exactly once    *)
(* (never lost, never duplicated), in enqueue order, by the first          *)
(* executeImageDiscards that takes the lock after the enqueue; the queue   *)
(* is empty when executeImageDiscards releases the lock; and within        *)
(* Renderer::render the drain happens before any cell is rendered.         *)
C18_DiscardQueue ==
    /\ Len(renderer.discarded) <= Len(renderer.enqueued)
    /\ \A k \in 1..Len(renderer.discarded) :
          /\ renderer.discarded[k].id = renderer.enqueued[k].id
          /\ renderer.discarded[k].epoch = renderer.enqueued[k].epoch + 1
    /\ renderer.imageDiscardLock_ # "render" =>
          Ids(renderer.discarded) \o renderer.discardImageQueue_ = Ids(renderer.enqueued)
    /\ lastCall = <<"executeImageDiscards:unlock", "render">> =>
          /\ renderer.discardImageQueue_ = <<>>
          /\ Len(renderer.discarded) = Len(renderer.enqueued)
    /\ \A k \in 1..Len(renderer.frame) :
          renderer.frame[k] = "cell" => k > 1 /\ renderer.frame[1] = "drain"

\* two ids were discarded by the first call of render and a third, enqueued while its
\* cells were being rendered, by the second
C18_Witness ==
    /\ Len(renderer.discarded) = 3
    /\ renderer.discarded[1].epoch = 1
    /\ renderer.discarded[2].epoch = 1
    /\ renderer.discarded[3].epoch = 2
    /\ renderer.enqueued[1].epoch = 0
    /\ renderer.enqueued[3].epoch = 1
    /\ renderer.discardImageQueue_ = <<>>
    /\ renderer.frame = <<"drain", "cell">>
    /\ threads.pc["render"] = "renderCells"

-----------------------------------------------------------------------------
(* RasterizedImage::fragment                                               *)
(* t is a RasterizedImage: image_ (width, height, data), cellSize_ and     *)
(* defaultColor_, together with the build it runs in.  fragment writes the tile through the pointer target,    *)
(* one byte after the other: stream is what it writes, in order, each byte *)
(* with the index in the image's data it was read from (-1 for a byte of   *)
(* defaultColor_).                                                         *)

\* an RGBA image whose byte at index i holds i + 1
ImageNew(width, height) ==
    [width |-> width, height |-> height, data |-> [k \in 1..(4 * width * height) |-> k]]

\* min(a - b, c) in unsigned arithmetic: below b the difference wraps around to
\* 2^32 - (b - a), which is above c for every size met here
MinOfDifference(a, b, c) == IF a >= b THEN Min(a - b, c) ELSE c

\* the byte at index of the image's data; outside the buffer the read is undefined
\* and yields junk
SourceByte(image, index, junk) ==
    IF index < Len(image.data) THEN image.data[index + 1] ELSE junk

\* the fill loops leaving the pixels of the gap zeroed
fragmentFill_Zeroed(t, n) ==
    [k \in 1..(4 * n) |-> [value |-> 0, from |-> -1]]

\* n pixels of defaultColor_
fragmentFill(t, n) ==
    [k \in 1..(4 * n) |-> [value |-> t.defaultColor_[((k - 1) % 4) + 1], from |-> -1]]

\* startOffset of the copy loop in turn y
startOffset(t, pixelOffset, availableHeight, y) ==
    ((pixelOffset.row + (availableHeight - 1 - y)) * t.image_.width + pixelOffset.column) * 4
\* the copy loop taking the rows of the image top down
RECURSIVE fragmentRows_Unmirrored(_, _, _, _, _, _)
fragmentRows_Unmirrored(t, pixelOffset, availableWidth, availableHeight, y, junk) ==
    IF y >= availableHeight THEN <<>>
    ELSE LET source == startOffset(t, pixelOffset, availableHeight, availableHeight - 1 - y)
         IN  [k \in 1..(availableWidth * 4) |->
                 [value |-> SourceByte(t.image_, source + k - 1, junk), from |-> source + k - 1]]
             \o fragmentFill(t, t.cellSize_.width - availableWidth)
             \o fragmentRows_Unmirrored(t, pixelOffset, availableWidth, availableHeight,
                                        y + 1, junk)

\* the copy loop from turn y on: availableWidth pixels of the image, then the gap on
\* the right
RECURSIVE fragmentRows(_, _, _, _, _, _)
fragmentRows(t, pixelOffset, availableWidth, availableHeight, y, junk) ==
    IF y >= availableHeight THEN <<>>
    ELSE LET source == startOffset(t, pixelOffset, availableHeight, y)
         IN  [k \in 1..(availableWidth * 4) |->
                 [value |-> SourceByte(t.image_, source + k - 1, junk), from |-> source + k - 1]]
             \o fragmentFill(t, t.cellSize_.width - availableWidth)
             \o fragmentRows(t, pixelOffset, availableWidth, availableHeight, y + 1, junk)

\* fragment(_pos).  t.build.assertions: the asserts are compiled in; t.build.trapping:
\* an index outside the image's data ends the process (a checked operator[], a fault)
\* where otherwise the address is formed and the bytes read there are junk.  The
\* result says whether a tile was returned, the tile, for each of its bytes the index
\* of the image's data it was copied from (-1: defaultColor_, -2: never written), how
\* many bytes were written through target, and the indexes of the image's data that
\* were read.
fragment(t, pos, junk) ==
    LET xOffset == pos.column * t.cellSize_.width
        yOffset == pos.row * t.cellSize_.height
        pixelOffset == [row |-> yOffset, column |-> xOffset]
        size == t.cellSize_.width * t.cellSize_.height * 4
        availableWidth == MinOfDifference(t.image_.width, xOffset, t.cellSize_.width)
        availableHeight == MinOfDifference(t.image_.height, yOffset, t.cellSize_.height)
        stream == fragmentFill(t, t.cellSize_.height * t.cellSize_.width
                                      - availableHeight * t.cellSize_.width)
                  \o fragmentRows(t, pixelOffset, availableWidth, availableHeight, 0, junk)
        indexed == {startOffset(t, pixelOffset, availableHeight, y) :
                        y \in 0..(availableHeight - 1)}
        reads == {stream[k].from : k \in {j \in 1..Len(stream) : stream[j].from >= 0}}
        aborted == [status |-> "aborted", data |-> <<>>, sources |-> <<>>, written |-> 0,
                    reads |-> {}]
    IN  IF t.build.assertions /\ (t.image_.width < xOffset \/ t.image_.height < yOffset)
        THEN aborted
        ELSE IF t.build.trapping /\ \E index \in indexed \cup reads : index >= Len(t.image_.data)
        THEN aborted
        ELSE [status  |-> "returned",
              data    |-> [k \in 1..size |-> IF k <= Len(stream) THEN stream[k].value ELSE 0],
              sources |-> [k \in 1..size |-> IF k <= Len(stream) THEN stream[k].from ELSE -2],
              written |-> Len(stream),
              reads   |-> reads]

-----------------------------------------------------------------------------
(* A rasterized image asked for one fragment                               *)

\* largest width and height of the image
MaxImageSize == 3
\* largest width and height of a cell
MaxCellSize == 2
\* largest column and row of the cell asked for
MaxCell == 2

\* the fill colours of the rasterizations
DefaultColors == {<<200, 201, 202, 203>>}

InitFragment ==
    /\ NoDecoder
    /\ lastCall = <<"construct">>
    /\ ncalls = 0
    /\ palette = [palette_ |-> <<>>, maxSize_ |-> 0]
    /\ pool = <<>>
    /\ threads = <<>>
    /\ renderer = <<>>
    /\ \E width \in 0..MaxImageSize, height \in 0..MaxImageSize,
          w \in 1..MaxCellSize, h \in 1..MaxCellSize, color \in DefaultColors,
          assertions \in BOOLEAN, trapping \in BOOLEAN :
            tile = [image_        |-> ImageNew(width, height),
                    cellSize_     |-> Size(w, h),
                    defaultColor_ |-> color,
                    build         |-> [assertions |-> assertions, trapping |-> trapping],
                    pos           |-> [row |-> 0, column |-> 0],
                    result        |-> [status |-> "none"]]

\* one call of fragment on the rasterization
Fragment ==
    /\ tile.result.status = "none"
    /\ \E column \in 0..MaxCell, row \in 0..MaxCell, junk \in {0, 255} :
            LET pos == [row |-> row, column |-> column]
            IN  /\ tile' = [tile EXCEPT !.pos = pos,
                                        !.result = fragment(tile, pos, junk)]
                /\ lastCall' = <<"fragment", column, row>>
    /\ UNCHANGED <<decoderVars, ncalls, palette, pool, threads, renderer>>

SpecFragment == InitFragment /\ [][Fragment]_vars

-----------------------------------------------------------------------------
(* Vocabulary of the properties of fragment                                *)

\* fragment was called
Fragmented == tile.result.status # "none"

\* the pixel offset of the cell asked for
XOffset == tile.pos.column * tile.cellSize_.width

YOffset == tile.pos.row * tile.cellSize_.height

\* the cell asked for is in range: neither offset lies beyond the image
InRange == XOffset <= tile.image_.width /\ YOffset <= tile.image_.height

AvailableWidth == Min(tile.image_.width - XOffset, tile.cellSize_.width)

AvailableHeight == Min(tile.image_.height - YOffset, tile.cellSize_.height)

\* cellSize.w * cellSize.h * 4
TileBytes == tile.cellSize_.width * tile.cellSize_.height * 4

\* row j of the tile returned, counted from the start of the buffer
OutputRow(j) ==
    SubSeq(tile.result.data, j * tile.cellSize_.width * 4 + 1,
           (j + 1) * tile.cellSize_.width * 4)

\* n pixels of the default colour, as bytes
DefaultBytes(n) == [k \in 1..(4 * n) |-> tile.defaultColor_[((k - 1) % 4) + 1]]

\* the first AvailableWidth pixels of image row `row` from column XOffset on, then the
\* default colour
ImageRow(row) ==
    [k \in 1..(4 * AvailableWidth) |->
        tile.image_.data[(row * tile.image_.width + XOffset) * 4 + k]]
    \o DefaultBytes(tile.cellSize_.width - AvailableWidth)

-----------------------------------------------------------------------------
(* C19 as stated: for every RasterizedImage with cellSize.w > 0 and        *)
(* cellSize.h > 0 and every cell with col * cellSize.w <= image.width and  *)
(* row * cellSize.h <= image.height (the boundary where an offset equals   *)
(* the image dimension included), fragment returns exactly                 *)
(* cellSize.w * cellSize.h * 4 bytes, the fill and copy loops together     *)
(* write every output byte exactly once and never past the end, and every  *)
(* byte read from the image lies inside its data buffer.                   *)
C19_Original ==
    (Fragmented /\ InRange) =>
        /\ tile.result.status = "returned"
        /\ Len(tile.result.data) = TileBytes
        /\ tile.result.written = TileBytes
        /\ \A index \in tile.result.reads : index \in 0..(Len(tile.image_.data) - 1)

-----------------------------------------------------------------------------
(* C20 as stated: in the buffer returned by fragment, counting output rows *)
(* from the start of the buffer, output row y for 0 <= y < availableHeight *)
(* holds image row yOffset + (availableHeight - 1 - y) (first              *)
(* availableWidth pixels from image columns xOffset.., the rest            *)
(* defaultColor), and the last cellSize.h - availableHeight output rows    *)
(* are filled entirely with defaultColor.                                  *)
C20_Original ==
    (tile.result.status = "returned" /\ InRange) =>
        /\ \A y \in 0..(AvailableHeight - 1) :
              OutputRow(y) = ImageRow(YOffset + (AvailableHeight - 1 - y))
        /\ \A j \in AvailableHeight..(tile.cellSize_.height - 1) :
              OutputRow(j) = DefaultBytes(tile.cellSize_.width)

(* C20 amended: the buffer is laid out bottom-up, the gap first: counting  *)
(* output rows from the start of the buffer, the first                     *)
(* cellSize.h - availableHeight output rows are filled entirely with       *)
(* defaultColor, and output row (cellSize.h - availableHeight) + y for     *)
(* 0 <= y < availableHeight holds image row                                *)
(* yOffset + (availableHeight - 1 - y) (first availableWidth pixels from   *)
(* image columns xOffset.., the rest defaultColor).                        *)
C20_RowLayout ==
    (tile.result.status = "returned" /\ InRange) =>
        LET gap == tile.cellSize_.height - AvailableHeight
        IN  /\ \A j \in 0..(gap - 1) : OutputRow(j) = DefaultBytes(tile.cellSize_.width)
            /\ \A y \in 0..(AvailableHeight - 1) :
                  OutputRow(gap + y) = ImageRow(YOffset + (AvailableHeight - 1 - y))

\* a 2 x 2 cell at the lower right corner of a 3 x 3 image: one gap row, then the one
\* pixel of image row 2 followed by the gap on the right
C20_Witness ==
    /\ tile.result.status = "returned"
    /\ tile.image_.width = 3 /\ tile.image_.height = 3
    /\ tile.cellSize_ = Size(2, 2)
    /\ tile.pos = [row |-> 1, column |-> 1]
    /\ tile.result.data = <<200, 201, 202, 203, 200, 201, 202, 203,
                            33, 34, 35, 36, 200, 201, 202, 203>>

-----------------------------------------------------------------------------
(* The pixels of the tile returned                                         *)

\* the pixels of the tile, in the order of the buffer
TilePixels == 0..(tile.cellSize_.width * tile.cellSize_.height - 1)

\* the bytes of pixel p of the tile
PixelBytes(p) == [c \in 1..4 |-> tile.result.data[4 * p + c]]

\* pixel p was written by one of the fill loops
Filled(p) == \A c \in 1..4 : tile.result.sources[4 * p + c] = -1

\* pixel p was copied from four consecutive bytes of the image, and holds them
Copied(p) ==
    /\ tile.result.sources[4 * p + 1] \in 0..(Len(tile.image_.data) - 4)
    /\ \A c \in 1..4 :
          /\ tile.result.sources[4 * p + c] = tile.result.sources[4 * p + 1] + c - 1
          /\ tile.result.data[4 * p + c] = tile.image_.data[tile.result.sources[4 * p + c] + 1]

\* the cell asked for lies fully inside the image
FullyInside ==
    /\ XOffset + tile.cellSize_.width <= tile.image_.width
    /\ YOffset + tile.cellSize_.height <= tile.image_.height

-----------------------------------------------------------------------------
(* C21: default-fill padding.  In the tile returned for an in-range cell,  *)
(* exactly cellSize.w * cellSize.h - availableWidth * availableHeight      *)
(* pixels are not copied from the image, and each of them equals           *)
(* defaultColor in all four bytes; every other pixel is copied from the    *)
(* image.  When xOffset equals image.width or yOffset equals image.height  *)
(* the whole tile is defaultColor, and when the cell lies fully inside the *)
(* image no pixel is filled with defaultColor.                             *)
C21_Padding ==
    (tile.result.status = "returned" /\ InRange) =>
        LET filled == {p \in TilePixels : ~Copied(p)}
        IN  /\ Cardinality(filled) = tile.cellSize_.width * tile.cellSize_.height
                                         - AvailableWidth * AvailableHeight
            /\ \A p \in filled : Filled(p) /\ PixelBytes(p) = tile.defaultColor_
            /\ (XOffset = tile.image_.width \/ YOffset = tile.image_.height) =>
                  tile.result.data
                      = DefaultBytes(tile.cellSize_.width * tile.cellSize_.height)
            /\ FullyInside => \A p \in TilePixels : ~Filled(p)

\* 2 x 2 cells on an image 3 wide and 2 high, the cell of column 1: the last pixel of
\* each of the two image rows, each followed by one pixel of defaultColor
C21_Witness ==
    /\ tile.result.status = "returned"
    /\ tile.image_.width = 3 /\ tile.image_.height = 2
    /\ tile.cellSize_ = Size(2, 2)
    /\ tile.pos = [row |-> 0, column |-> 1]
    /\ AvailableWidth = 1 /\ AvailableHeight = 2
    /\ {p \in TilePixels : Filled(p)} = {1, 3}
    /\ PixelBytes(0) = <<21, 22, 23, 24>>
    /\ PixelBytes(2) = <<9, 10, 11, 12>>

-----------------------------------------------------------------------------
(* C22 as stated: a fragment request whose pixel offset lies outside the   *)
(* image (col * cellSize.w > image.width or row * cellSize.h >             *)
(* image.height) ends in a loud failure and never returns a tile; no image *)
(* bytes are read for such a request.                                      *)
C22_Original ==
    (Fragmented /\ ~InRange) =>
        /\ tile.result.status = "aborted"
        /\ tile.result.reads = {}

-----------------------------------------------------------------------------
(* C23 as stated: feeding '!', '3', '?' followed by a sixel byte b paints  *)
(* three consecutive columns, starting at the cursor column held when '!'  *)
(* was read, each with the bit pattern of b.  In "#1~!3?N" the cursor is   *)
(* at column 1 when '!' is read and b = 'N' has pins 0..3.                 *)
C23_Original ==
    (Parsed(ScriptRepeatEmpty) /\ builder.size_.width >= 4) =>
        \A px \in Pixels :
            (px[2] \in 1..3 /\ px[1] <= 5) =>
                PixelAt(builder, px[1], px[2]) =
                    IF Pin(toSixel(78), px[1]) THEN Painted(1) ELSE background

\* the steps of "#1~!3?N" from '!' on
C23_RepeatStep ==
    /\ (Parsed(Prefix(ScriptRepeatEmpty, 3)) /\ lastCall' = <<"pass", 33>>) =>
          emitted' = <<>> /\ state_' = "RepeatIntroducer" /\ params_' = <<0>>
    /\ (Parsed(Prefix(ScriptRepeatEmpty, 4)) /\ lastCall' = <<"pass", 51>>) =>
          emitted' = <<>> /\ state_' = "RepeatIntroducer" /\ params_' = <<3>>
    /\ (Parsed(Prefix(ScriptRepeatEmpty, 5)) /\ lastCall' = <<"pass", 63>>) =>
          /\ emitted' = <<<<"render", 0>>, <<"render", 0>>, <<"render", 0>>>>
          /\ state_' = "Ground"
          /\ builder'.buffer_ = builder.buffer_
          /\ builder'.sixelCursor_.column
                = Min(builder.sixelCursor_.column + 3, builder.size_.width)
    /\ (Parsed(Prefix(ScriptRepeatEmpty, 6)) /\ lastCall' = <<"pass", 78>>) =>
          /\ emitted' = <<<<"render", toSixel(78)>>>>
          /\ state_' = "Ground"

\* the raster after "#1~!3?N": '~' in column 0, columns 1..3 untouched, 'N' in column 4
C23_Scenario ==
    Parsed(ScriptRepeatEmpty) =>
        /\ \A px \in Pixels :
              px[1] <= 5 =>
                  PixelAt(builder, px[1], px[2]) =
                      IF px[2] = 0 \/ (px[2] = 4 /\ Pin(toSixel(78), px[1]))
                      THEN Painted(1)
                      ELSE background
        /\ builder.sixelCursor_.column = Min(5, builder.size_.width)

(* C23 amended: '?' is itself a sixel byte (value 0, no pin set), so '!',  *)
(* '3', '?' renders three empty columns: it changes no pixel and advances  *)
(* the cursor by three columns (not beyond size.w), and the parser is back *)
(* in Ground; the sixel byte b that follows is rendered once, at the       *)
(* column three to the right of the one held when '!' was read.            *)
C23_EmptyRepeat == [][C23_RepeatStep /\ C23_Scenario']_vars

\* on the raster 5 wide 'N' was painted in column 4, and column 1 kept the background
C23_Witness ==
    /\ Parsed(ScriptRepeatEmpty)
    /\ builder.size_.width = 5
    /\ emitted = <<<<"render", 15>>>>
    /\ Painted(1) # background
    /\ PixelAt(builder, 3, 4) = Painted(1)
    /\ PixelAt(builder, 4, 4) = background
    /\ PixelAt(builder, 0, 1) = background
    /\ builder.sixelCursor_.column = 5

-----------------------------------------------------------------------------
\* v is outside the SIXEL vocabulary: no digit, not ';', no sixel byte and none of
\* '#', '!', '"', '$', '-'
Junk(v) == ~isDigit(v) /\ v # 59 /\ ~isSixel(v) /\ v \notin {35, 33, 34, 36, 45}

\* the call just made passed a code point outside the SIXEL vocabulary
JunkPassed(call) == call[1] = "pass" /\ Junk(call[2])

(* C24 as stated: in every parser state, a code point outside the SIXEL    *)
(* vocabulary is ignored: it emits no event and leaves the parser state    *)
(* and the parameter list unchanged, so the bytes that follow are          *)
(* interpreted exactly as if it had not been sent.                         *)
C24_OriginalStep ==
    JunkPassed(lastCall') =>
        /\ emitted' = <<>>
        /\ state_' = state_
        /\ params_' = params_

C24_JunkStep ==
    JunkPassed(lastCall') =>
        /\ params_' = params_
        /\ state_' = "Ground"
        /\ emitted' = LeaveEvents(emitted')
        /\ emitted' = leaveState(Parser).events
        /\ Len(emitted') <= 1
        /\ state_ \in {"Ground", "ColorIntroducer", "RepeatIntroducer"} =>
              emitted' = <<>> /\ builder' = builder
        /\ (state_ = "ColorParam" /\ Len(params_) = 1) =>
              emitted' = <<<<"useColor", params_[1]>>>>
        /\ (state_ = "RasterSettings" /\ Len(params_) = 4) =>
              emitted'[1][1] = "setRaster"

-----------------------------------------------------------------------------
\* the state '#', '!' and '"' lead to
Introduced(v) ==
    CASE v = 35 -> "ColorIntroducer"
      [] v = 33 -> "RepeatIntroducer"
      [] v = 34 -> "RasterSettings"

\* the event '$' and '-' emit
CursorEvent(v) == IF v = 36 THEN <<"rewind">> ELSE <<"newline">>

(* C25: command introducers act from every parser state: '#' always        *)
(* results in ColorIntroducer, '!' in RepeatIntroducer and '"' in          *)
(* RasterSettings, each with the parameter list reset to the single        *)
(* element 0; '$' and '-' always result in Ground and emit rewind          *)
(* respectively newline; in all five cases the leave-action event of the   *)
(* state being left (useColor, setColor or setRaster), if any, is emitted  *)
(* before the rewind/newline event.                                        *)
C25_IntroducerStep ==
    \A v \in {35, 33, 34, 36, 45} :
        lastCall' = <<"pass", v>> =>
            LET pending == leaveState(Parser).events
            IN  /\ pending = LeaveEvents(pending)
                /\ Len(pending) <= 1
                /\ (state_ = "ColorParam" /\ Len(params_) = 1) =>
                      pending = <<<<"useColor", params_[1]>>>>
                /\ (state_ = "ColorParam" /\ Len(params_) = 5 /\ params_[2] = 2) =>
                      Len(pending) = 1 /\ pending[1][1] = "setColor"
                /\ (state_ = "RasterSettings" /\ Len(params_) = 4) =>
                      Len(pending) = 1 /\ pending[1][1] = "setRaster"
                /\ IF v \in {35, 33, 34}
                   THEN /\ state_' = Introduced(v)
                        /\ params_' = <<0>>
                        /\ emitted' = pending
                   ELSE /\ state_' = "Ground"
                        /\ emitted' = pending \o <<CursorEvent(v)>>

\* C25: every step on '#', '!', '"', '$' or '-' acts as an introducer
C25_Introducers == [][C25_IntroducerStep]_vars

\* '-' in ColorParam with the one parameter 1: useColor(1), then newline
C25_Witness ==
    /\ lastCall = <<"pass", 45>>
    /\ state_ = "Ground"
    /\ emitted = <<<<"useColor", 1>>, <<"newline">>>>

-----------------------------------------------------------------------------
(* C26 as stated: newline always sets sixelCursor.column to 0, and it      *)
(* advances sixelCursor.row by 6 only if that still leaves at least 6 rows *)
(* inside the image: whenever newline changes the row, the new row r       *)
(* satisfies r + 6 <= size.h; otherwise the row is unchanged.              *)
C26_OriginalStep ==
    lastCall'[1] = "newline" =>
        /\ builder'.sixelCursor_.column = 0
        /\ \/ builder'.sixelCursor_.row = builder.sixelCursor_.row
           \/ /\ builder'.sixelCursor_.row = builder.sixelCursor_.row + 6
              /\ builder'.sixelCursor_.row + 6 <= builder.size_.height

\* C26 as stated: every newline step leaves six rows below the new row
C26_Original == [][C26_OriginalStep]_vars

(* C26 amended: newline always sets sixelCursor.column to 0, and it        *)
(* advances sixelCursor.row by 6 exactly when row + 6 < size.h, that is    *)
(* when the new row is still a row of the image: whenever newline changes  *)
(* the row, the new row r satisfies r < size.h (the band that starts there *)
(* may have fewer than 6 rows inside the image); otherwise the row is      *)
(* unchanged.  Nothing else of the builder changes.                        *)
C26_NewlineStep ==
    lastCall'[1] = "newline" =>
        LET row == builder.sixelCursor_.row
        IN  /\ builder' = [builder EXCEPT !.sixelCursor_ = builder'.sixelCursor_]
            /\ builder'.sixelCursor_.column = 0
            /\ IF row + 6 < builder.size_.height
               THEN /\ builder'.sixelCursor_.row = row + 6
                    /\ builder'.sixelCursor_.row < builder.size_.height
               ELSE builder'.sixelCursor_.row = row

\* C26 amended: every newline step advances exactly onto rows of the image
C26_Newline == [][C26_NewlineStep]_vars

\* on a raster 7 rows high newline moved the cursor to row 6, the last row
C26_Witness ==
    /\ lastCall = <<"newline">>
    /\ builder.size_.height = 7
    /\ builder.sixelCursor_ = [row |-> 6, column |-> 0]
    /\ ncalls >= 2

-----------------------------------------------------------------------------
\* the raster is exactly 6k rows tall for some k >= 2
WholeBands == builder.size_.height % 6 = 0 /\ builder.size_.height >= 12

\* the first row of the final band of such a raster: 6(k - 1)
FinalBand == builder.size_.height - 6

(* C27 as stated: with the source's newline rule (advance only if          *)
(* row + 6 < size.h), for a raster exactly 6k rows tall (k >= 2) the final *)
(* band is dropped: no sequence of newline calls brings sixelCursor.row to *)
(* 6(k-1), so rows 6(k-1)..6k-1 can never be painted.                      *)
C27_Original ==
    WholeBands =>
        /\ builder.sixelCursor_.row # FinalBand
        /\ \A px \in Pixels : px[1] >= FinalBand => PixelAt(builder, px[1], px[2]) = background

\* a newline step on a raster of whole bands
C27_BandStep ==
    (WholeBands /\ lastCall'[1] = "newline") =>
        builder'.sixelCursor_.row = Min(builder.sixelCursor_.row + 6, FinalBand)

\* the cursor of a raster of whole bands is at the start of one of its bands
C27_OnBand ==
    WholeBands =>
        /\ builder.sixelCursor_.row % 6 = 0
        /\ builder.sixelCursor_.row <= FinalBand

(* C27 amended: with the source's newline rule (advance only if            *)
(* row + 6 < size.h) no band of a raster exactly 6k rows tall (k >= 2) is  *)
(* dropped: each newline moves sixelCursor.row to min(row + 6, 6(k-1)), so *)
(* k - 1 newline calls bring it to 6(k-1), the start of the final band,    *)
(* whose rows 6(k-1)..6k-1 are then painted by render; the row never goes  *)
(* beyond 6(k-1).                                                          *)
C27_FinalBand == [][C27_BandStep /\ C27_OnBand']_vars

\* on the raster 18 rows high two newlines led to row 12, and a sixel with all six pins
\* painted rows 12..17
C27_Witness ==
    /\ lastCall = <<"render", 63>>
    /\ builder.size_.height = 18
    /\ builder.sixelCursor_.row = FinalBand
    /\ \A row \in 12..17 : PixelAt(builder, row, 0) = Painted(builder.currentColor_)
    /\ Painted(builder.currentColor_) # background

-----------------------------------------------------------------------------
\* every pixel of the current raster holds the background colour the builder was
\* constructed with
AllBackground == \A px \in Pixels : PixelAt(builder, px[1], px[2]) = background

(* C28 as stated: background fill survives resizing: for a builder         *)
(* constructed with background colour bg, after any sequence of setRaster  *)
(* calls issued before the first render, every pixel of the current raster *)
(* holds bg, and after subsequent renders every pixel that no render       *)
(* painted still holds bg.  As a step: setRaster on a raster that holds bg *)
(* throughout leaves a raster that holds bg throughout, and render leaves  *)
(* every pixel outside the cursor's column as it was.                      *)
C28_OriginalStep ==
    /\ (lastCall'[1] = "setRaster" /\ AllBackground) => AllBackground'
    /\ lastCall'[1] = "render" =>
          \A px \in Pixels :
              px[2] # builder.sixelCursor_.column =>
                  PixelAt(builder', px[1], px[2]) = PixelAt(builder, px[1], px[2])

\* C28 as stated: every setRaster step keeps the background fill
C28_Original == [][C28_OriginalStep]_vars

-----------------------------------------------------------------------------
\* base of write for the pixel (row, column) of the current raster
WriteBase(row, column) == row * builder.size_.width * 4 + column * 4

\* the pixels render(s) passes to write at the current cursor and write accepts
Accepted(s) ==
    {px \in {<<builder.sixelCursor_.row + i, builder.sixelCursor_.column>> : i \in 0..5} :
        /\ Pin(s, px[1] - builder.sixelCursor_.row)
        /\ builder.sixelCursor_.column < builder.size_.width
        /\ px[1] < builder.size_.height}

\* the bytes of the buffer (counted from 0) that the step changed or added
ChangedBytes ==
    {k \in 0..(Len(builder'.buffer_) - 1) :
        k >= Len(builder.buffer_) \/ builder'.buffer_[k + 1] # builder.buffer_[k + 1]}

(* C29: pixel writes stay inside the buffer under every interleaving of    *)
(* builder events, including setRaster calls that shrink the raster after  *)
(* the cursor has advanced (which can leave sixelCursor.column > size.w or *)
(* sixelCursor.row >= size.h): every byte written by render has an index   *)
(* below the current buffer length 4 * size.w * size.h, and a cursor       *)
(* outside the raster causes the write to be dropped with the buffer       *)
(* unchanged.                                                              *)
C29_WriteStep ==
    lastCall'[1] = "render" =>
        LET s == lastCall'[2]
            length == 4 * builder.size_.width * builder.size_.height
        IN  /\ Len(builder.buffer_) = length
            /\ Len(builder'.buffer_) = length
            /\ \A px \in Accepted(s) : WriteBase(px[1], px[2]) + 3 < length
            /\ \A k \in ChangedBytes :
                  /\ k < length
                  /\ \E px \in Accepted(s) : k - WriteBase(px[1], px[2]) \in 0..3
            /\ (\/ builder.sixelCursor_.column >= builder.size_.width
                \/ builder.sixelCursor_.row >= builder.size_.height)
               => builder'.buffer_ = builder.buffer_

\* C29: every render step writes inside the buffer, or nothing
C29_WritesInside == [][C29_WriteStep]_vars

\* newline moved the cursor to row 6, setRaster then shrank the raster to 6 rows, and
\* the render of all six pins that followed changed no byte of the 24
C29_Witness ==
    /\ lastCall = <<"render", 63>>
    /\ ncalls = 3
    /\ builder.size_ = Size(1, 6)
    /\ builder.sixelCursor_ = [row |-> 6, column |-> 1]
    /\ Len(builder.buffer_) = 24
    /\ AllBackground

-----------------------------------------------------------------------------
\* the parameter list as the states other than Ground need it
C30_NonEmpty ==
    /\ state_ # "Ground" => Len(params_) >= 1
    /\ state_ \in {"ColorIntroducer", "RepeatIntroducer"} => Len(params_) = 1

\* a digit or ';' received in Ground
C30_GroundStep ==
    \A v \in CodePoints :
        (state_ = "Ground" /\ lastCall' = <<"pass", v>> /\ (isDigit(v) \/ v = 59)) =>
            /\ params_' = params_
            /\ state_' = "Ground"
            /\ emitted' = <<>>

(* C30: for every input sequence, whenever the parser is in a state other  *)
(* than Ground its parameter list is non-empty, so digit accumulation      *)
(* always has a last element to update and the repeat count params[0]      *)
(* always exists; in ColorIntroducer and RepeatIntroducer the list has     *)
(* exactly one element, and digits or ';' received in Ground never touch   *)
(* the list.                                                               *)
C30_Params == [][C30_GroundStep /\ C30_NonEmpty']_vars

\* "!12": two digits were accumulated in the one element of the list
C30_Witness ==
    /\ state_ = "RepeatIntroducer"
    /\ lastCall = <<"pass", 50>>
    /\ params_ = <<12>>
    /\ emitted = <<>>

=============================================================================
